---- MODULE Spec2Model ----
(***************************************************************************)
(* FrameFactory (PixelLab): the effect pipeline of app/core/pipeline.py,   *)
(* its undo/redo history, and the catalog effects it dispatches to.        *)
(*                                                                         *)
(* Indices are 0-based as in the Python source; a Python list l is the     *)
(* TLA+ sequence whose element l[i] is s[i + 1].  A params dict is a       *)
(* function from keys to values (a record; {} is the empty function <<>>). *)
(* An image buffer is a sequence of rows, a row a sequence of pixels, a    *)
(* pixel the tuple of its three 8-bit samples.                             *)
(***************************************************************************)
EXTENDS Integers, Sequences, FiniteSets, TLC

VARIABLES
    effects,        \* Pipeline.effects: the live instance list
    history,        \* Pipeline.history: list of snapshots
    history_index,  \* Pipeline.history_index: cursor into history, -1 when empty
    logs,           \* Logger.logs of the global logger
    last,           \* record of the last call made on the pipeline (observer)
    steps,          \* number of calls made so far (observer)
    heap,           \* the objects of the interpreter, by identity
    rng,            \* the process-wide generators of random and numpy.random
    threads         \* the threads running an effect, each with its position

vars == <<effects, history, history_index, logs, last, steps, heap, rng, threads>>

---------------------------------------------------------------------------
(* Bounds of the model                                                     *)

MaxEffects == 2     \* add_effect is not called on a list of this length
MaxOps == 4         \* calls explored from the initial state
WarmEdits == 49     \* edits already recorded in the initial state of SpecCap

(* Program constants                                                       *)

max_history == 50

---------------------------------------------------------------------------
(* Python helpers                                                          *)

\* dict.get(key, default)
Get(params, key, default) == IF key \in DOMAIN params THEN params[key] ELSE default

\* list.pop(index) for 0 <= index < len: the list without that element
Pop(l, index) == [k \in 1..(Len(l) - 1) |-> IF k <= index THEN l[k] ELSE l[k + 1]]

\* list.insert(index, x) for 0 <= index <= len
Insert(l, index, x) ==
    [k \in 1..(Len(l) + 1) |->
        IF k <= index THEN l[k] ELSE IF k = index + 1 THEN x ELSE l[k - 1]]

\* max(lo, min(v, hi))
Clamp(lo, v, hi) == IF v < lo THEN lo ELSE IF v > hi THEN hi ELSE v

---------------------------------------------------------------------------
(* The effect catalog (the entries the pipeline model dispatches to)       *)

\* registry key -> effect class; a class is identified by its __name__
EFFECT_REGISTRY ==
    ("ShiftRowsColumns" :> "ShiftRowsColumns") @@ ("Warp" :> "Warp")
    @@ ("BlockShuffle" :> "BlockShuffle") @@ ("RotateFlip" :> "RotateFlip")
    @@ ("Crop" :> "Crop") @@ ("Scale" :> "Scale")
    @@ ("HSVAdjust" :> "HSVAdjust") @@ ("RGBCurves" :> "RGBCurves")
    @@ ("ChannelShuffle" :> "ChannelShuffle") @@ ("Posterize" :> "Posterize")
    @@ ("Grain" :> "Grain") @@ ("SharpenBlur" :> "SharpenBlur")

\* Effect.name of each class
name(effect_class) ==
    CASE effect_class = "ShiftRowsColumns" -> "Shift Rows/Columns"
      [] effect_class = "Warp" -> "Warp"
      [] effect_class = "BlockShuffle" -> "Block Shuffle"
      [] effect_class = "RotateFlip" -> "Rotate/Flip"
      [] effect_class = "Crop" -> "Crop"
      [] effect_class = "Scale" -> "Scale"
      [] effect_class = "HSVAdjust" -> "HSV Adjust"
      [] effect_class = "RGBCurves" -> "RGB Curves"
      [] effect_class = "ChannelShuffle" -> "Channel Shuffle"
      [] effect_class = "Posterize" -> "Posterize"
      [] effect_class = "Grain" -> "Grain"
      [] effect_class = "SharpenBlur" -> "Sharpen/Blur"

Returned(image) == [raised |-> FALSE, image |-> image]
Raised(image) == [raised |-> TRUE, image |-> image]

Height(image) == Len(image)
Width(image) == IF Len(image) = 0 THEN 0 ELSE Len(image[1])

\* ChannelShuffle.apply; the "mix" mode (float blend) is outside the inputs
ChannelShuffle_apply(image, params) ==
    LET mode == Get(params, "mode", "rgb")
        perm(px) ==
            CASE mode = "rgb" -> <<px[1], px[2], px[3]>>
              [] mode = "rbg" -> <<px[1], px[3], px[2]>>
              [] mode = "grb" -> <<px[2], px[1], px[3]>>
              [] mode = "gbr" -> <<px[2], px[3], px[1]>>
              [] mode = "brg" -> <<px[3], px[1], px[2]>>
              [] mode = "bgr" -> <<px[3], px[2], px[1]>>
              [] mode \notin {"rgb", "rbg", "grb", "gbr", "brg", "bgr", "mix"} -> px
    IN Returned([y \in 1..Len(image) |-> [x \in 1..Len(image[y]) |-> perm(image[y][x])]])

\* Scale.apply for integer percentages; PIL's resize raises ValueError on an
\* empty target size and returns a copy when the size is unchanged (other
\* target sizes, which resample, are outside the inputs)
Scale_apply(image, params) ==
    LET scale_x == Get(params, "scale_x", 100)
        scale_y == Get(params, "scale_y", 100)
        new_w == (Width(image) * scale_x) \div 100
        new_h == (Height(image) * scale_y) \div 100
    IN CASE new_w <= 0 \/ new_h <= 0 -> Raised(image)
         [] new_w = Width(image) /\ new_h = Height(image) -> Returned(image)

\* Posterize.apply with the step taken over the intervals between the levels,
\* 256 // (levels - 1)
Posterize_apply_intervals(image, params) ==
    LET levels == Clamp(2, Get(params, "levels", 8), 256)
        step == 256 \div (levels - 1)
        quant(px) == [c \in 1..Len(px) |-> ((px[c] \div step) * step) % 256]
    IN CASE Get(params, "dither", FALSE) = FALSE ->
           Returned([y \in 1..Len(image) |-> [x \in 1..Len(image[y]) |-> quant(image[y][x])]])

\* Posterize.apply without dithering (the ordered dither is outside the inputs)
Posterize_apply(image, params) ==
    LET levels == Clamp(2, Get(params, "levels", 8), 256)
        step == 256 \div levels
        quant(px) == [c \in 1..Len(px) |-> ((px[c] \div step) * step) % 256]
    IN CASE Get(params, "dither", FALSE) = FALSE ->
           Returned([y \in 1..Len(image) |-> [x \in 1..Len(image[y]) |-> quant(image[y][x])]])

\* effect_class.apply(image, params): dispatch on the class
Effect_apply(effect_class, image, params) ==
    CASE effect_class = "ChannelShuffle" -> ChannelShuffle_apply(image, params)
      [] effect_class = "Scale" -> Scale_apply(image, params)
      [] effect_class = "Posterize" -> Posterize_apply(image, params)

---------------------------------------------------------------------------
(* The process-wide generators.  A generator state is a number; the        *)
(* Mersenne Twister of random and numpy.random is stood in for by a small  *)
(* linear congruential generator, which keeps what the program relies on:  *)
(* seeding sets the state to a function of the seed, a draw returns a      *)
(* function of the state and moves the state on.  g is the pair of states  *)
(* [py, np]; a drawing function returns the generators after the draw (g)  *)
(* and the value drawn (v).                                                *)

\* the generator of the random module in state py, numpy.random's in state np
Generators(py, np) == [py |-> py, np |-> np]

\* the state that follows a state
Advance(state) == (5 * state + 3) % 16

\* random.seed(a), a >= 0
random_seed(g, a) == [g EXCEPT !.py = a % 16]

\* random._randbelow(n), n > 0
randbelow(g, n) == [g |-> [g EXCEPT !.py = Advance(@)], v |-> Advance(g.py) % n]

\* random.randint(a, b), a <= b (a state is below 16, so that over a range
\* of 16 or more numbers the remainder is the state itself)
randint(g, a, b) ==
    IF b - a >= 15
    THEN [g |-> [g EXCEPT !.py = Advance(@)], v |-> a + Advance(g.py)]
    ELSE LET r == randbelow(g, b - a + 1) IN [g |-> r.g, v |-> a + r.v]

\* random.random(), in sixteenths
random_random(g) == [g |-> [g EXCEPT !.py = Advance(@)], v |-> Advance(g.py)]

\* random.random() < num / den
random_below(g, num, den) ==
    LET r == random_random(g) IN [g |-> r.g, v |-> r.v * den < 16 * num]

\* random.uniform(a, b): the float a + (b - a) * random(), kept as a term
uniform(g, a, b) ==
    LET r == random_random(g) IN [g |-> r.g, v |-> [uniform |-> <<a, b>>, u |-> r.v]]

\* random.choice(seq)
choice(g, seq) == LET r == randbelow(g, Len(seq)) IN [g |-> r.g, v |-> seq[r.v + 1]]

\* the loop of random.sample over a pool of n elements, from draw i on
RECURSIVE sample_loop(_, _, _, _, _)
sample_loop(g, pool, i, k, result) ==
    IF i >= k THEN [g |-> g, v |-> result]
    ELSE LET n == Len(pool)
             r == randbelow(g, n - i)
         IN sample_loop(r.g, [pool EXCEPT ![r.v + 1] = pool[n - i]], i + 1, k,
                        Append(result, pool[r.v + 1]))

\* random.sample(population, k) for 0 <= k <= len(population) <= 21 (the
\* pool branch of the library; other k raise ValueError)
sample(g, population, k) == sample_loop(g, population, 0, k, <<>>)

\* the loop of random.shuffle, from position i (0-based) down to 1
RECURSIVE shuffle_loop(_, _, _)
shuffle_loop(g, x, i) ==
    IF i < 1 THEN [g |-> g, v |-> x]
    ELSE LET r == randbelow(g, i + 1)
         IN shuffle_loop(r.g, [x EXCEPT ![i + 1] = x[r.v + 1], ![r.v + 1] = x[i + 1]], i - 1)

\* random.shuffle(x): the shuffled list
shuffle(g, x) == shuffle_loop(g, x, Len(x) - 1)

\* numpy.random.seed(a), a >= 0
np_random_seed(g, a) == [g EXCEPT !.np = a % 16]

\* numpy.random.normal(0, 1, shape) for a shape of n numbers: the draws in
\* order, each a function of the state (the stand-in draws -1, 0 or 1)
RECURSIVE np_random_normal(_, _)
np_random_normal(g, n) ==
    IF n = 0 THEN [g |-> g, v |-> <<>>]
    ELSE LET r == np_random_normal([g EXCEPT !.np = Advance(@)], n - 1)
         IN [g |-> r.g, v |-> <<(Advance(g.np) % 3) - 1>> \o r.v]

\* int(x) of the float num / den, den > 0: truncation toward zero
int(num, den) == IF num >= 0 THEN num \div den ELSE -((-num) \div den)

\* a float that is the ratio of two small integers
Frac(num, den) == [num |-> num, den |-> den]

---------------------------------------------------------------------------
(* The catalog effects that draw from the generators.  Each returns, with  *)
(* the buffer, the generators after the call.                              *)

ReturnedWith(image, g) == [raised |-> FALSE, image |-> image, g |-> g]

\* numpy.roll(a, shift, axis=0) of a non-empty sequence
Roll(a, shift) == [x \in 1..Len(a) |-> a[((x - 1 - shift) % Len(a)) + 1]]

\* column x of an image, top to bottom
Column(image, x) == [y \in 1..Len(image) |-> image[y][x]]

\* ShiftRowsColumns._apply_wrap_mode
apply_wrap_mode(shifted, original, shift, size, wrap_mode) ==
    IF wrap_mode = "clamp"
    THEN [x \in 1..Len(shifted) |->
            IF shift > 0 /\ x <= shift THEN original[x]               \* result[:shift]
            ELSE IF shift < 0 /\ x > Len(shifted) + shift THEN original[x]  \* result[shift:]
            ELSE shifted[x]]
    ELSE shifted

\* the loop that draws the shifts of _shift_rows and _shift_columns, from
\* index i on, for max_shift >= 0
RECURSIVE shifts_loop(_, _, _, _, _, _)
shifts_loop(g, i, n, max_shift, smoothness, shifts) ==
    IF i >= n THEN [g |-> g, v |-> shifts]
    ELSE LET r == randint(g, -max_shift, max_shift)
             shift == IF i = 0 THEN r.v
                      ELSE int(shifts[i] * smoothness.num
                                   + r.v * (smoothness.den - smoothness.num),
                               smoothness.den)
         IN shifts_loop(r.g, i + 1, n, max_shift, smoothness, Append(shifts, shift))

\* the loop of _shift_rows that applies the shifts
shifted_rows(image, shifts, wrap_mode) ==
    [y \in 1..Height(image) |->
        IF shifts[y] = 0 THEN image[y]
        ELSE apply_wrap_mode(Roll(image[y], shifts[y]), image[y], shifts[y],
                             Width(image), wrap_mode)]

\* _shift_rows without the call of random.seed
shift_rows_unseeded(image, max_shift, smoothness, wrap_mode, seed, g) ==
    LET drawn == shifts_loop(g, 0, Height(image), max_shift, smoothness, <<>>)
    IN ReturnedWith(shifted_rows(image, drawn.v, wrap_mode), drawn.g)

\* ShiftRowsColumns._shift_rows
shift_rows(image, max_shift, smoothness, wrap_mode, seed, g) ==
    LET drawn == shifts_loop(random_seed(g, seed), 0, Height(image), max_shift,
                             smoothness, <<>>)
    IN ReturnedWith(shifted_rows(image, drawn.v, wrap_mode), drawn.g)

\* ShiftRowsColumns._shift_columns
shift_columns(image, max_shift, smoothness, wrap_mode, seed, g) ==
    LET drawn == shifts_loop(random_seed(g, seed + 1000), 0, Width(image), max_shift,
                             smoothness, <<>>)
        column(x) ==
            IF drawn.v[x] = 0 THEN Column(image, x)
            ELSE apply_wrap_mode(Roll(Column(image, x), drawn.v[x]), Column(image, x),
                                 drawn.v[x], Height(image), wrap_mode)
    IN ReturnedWith([y \in 1..Height(image) |-> [x \in 1..Width(image) |-> column(x)[y]]],
                    drawn.g)

\* ShiftRowsColumns.apply without a call of random.seed
ShiftRowsColumns_apply_unseeded(image, params, g) ==
    LET direction == Get(params, "direction", "rows")
        max_shift == Get(params, "max_shift", 20)
        smoothness == Get(params, "smoothness", Frac(1, 2))
        seed == Get(params, "seed", 42)
        wrap_mode == Get(params, "wrap_mode", "wrap")
        rows == IF direction \in {"rows", "both"}
                THEN shift_rows_unseeded(image, max_shift, smoothness, wrap_mode, seed, g)
                ELSE ReturnedWith(image, g)
    IN IF direction \in {"columns", "both"}
       THEN shift_columns(rows.image, max_shift, smoothness, wrap_mode, seed, rows.g)
       ELSE rows

\* ShiftRowsColumns.apply for a non-empty image; with max_shift < 0 the first
\* random.randint(-max_shift, max_shift) raises ValueError (empty range)
ShiftRowsColumns_apply(image, params, g) ==
    LET direction == Get(params, "direction", "rows")
        max_shift == Get(params, "max_shift", 20)
        smoothness == Get(params, "smoothness", Frac(1, 2))
        seed == Get(params, "seed", 42)
        wrap_mode == Get(params, "wrap_mode", "wrap")
        seeded == random_seed(g, seed)
        rows == IF direction \in {"rows", "both"}
                THEN shift_rows(image, max_shift, smoothness, wrap_mode, seed, seeded)
                ELSE ReturnedWith(image, seeded)
    IN IF max_shift < 0 /\ direction \in {"rows", "columns", "both"}
       THEN [raised |-> TRUE, image |-> image,
             g |-> random_seed(g, IF direction = "columns" THEN seed + 1000 ELSE seed)]
       ELSE IF direction \in {"columns", "both"}
       THEN shift_columns(rows.image, max_shift, smoothness, wrap_mode, seed, rows.g)
       ELSE rows

RaisedWith(image, g) == [raised |-> TRUE, image |-> image, g |-> g]

\* min(a, b)
Min(a, b) == IF a < b THEN a ELSE b

\* image[y1:y2, x1:x2] for 0 <= y1 <= y2 <= h and 0 <= x1 <= x2 <= w
Slice(image, y1, y2, x1, x2) ==
    [y \in 1..(y2 - y1) |-> [x \in 1..(x2 - x1) |-> image[y1 + y][x1 + x]]]

\* numpy.rot90(m, k), k >= 0: k quarter turns counterclockwise
RECURSIVE rot90(_, _)
rot90(m, k) ==
    IF k = 0 THEN m
    ELSE LET turned == [i \in 1..Width(m) |-> [j \in 1..Height(m) |-> m[j][Width(m) + 1 - i]]]
         IN rot90(turned, k - 1)

\* numpy.flip(m, axis)
flip(m, axis) ==
    IF axis = 0
    THEN [y \in 1..Height(m) |-> m[Height(m) + 1 - y]]
    ELSE [y \in 1..Height(m) |-> [x \in 1..Width(m) |-> m[y][Width(m) + 1 - x]]]

\* numpy.roll(m, (offset_y, offset_x), axis=(0, 1))
roll2(m, offset_y, offset_x) ==
    [y \in 1..Height(m) |-> [x \in 1..Width(m) |->
        m[((y - 1 - offset_y) % Height(m)) + 1][((x - 1 - offset_x) % Width(m)) + 1]]]

\* BlockShuffle._transform_block: the block and the generators after it
transform_block(block, transform, seed, g) ==
    IF transform = "none" THEN [g |-> g, v |-> block]
    ELSE LET seeded == random_seed(g, seed) IN
         CASE transform = "rotate" ->
                  LET k == randint(seeded, 1, 3) IN [g |-> k.g, v |-> rot90(block, k.v)]
           [] transform = "flip" ->
                  LET r == random_below(seeded, 1, 2)
                  IN [g |-> r.g, v |-> IF r.v THEN flip(block, 0) ELSE flip(block, 1)]
           [] transform = "jitter" ->
                  LET offset_y == randint(seeded, -2, 2)
                      offset_x == randint(offset_y.g, -2, 2)
                  IN [g |-> offset_x.g, v |-> roll2(block, offset_y.v, offset_x.v)]
           [] transform \notin {"rotate", "flip", "jitter"} -> [g |-> seeded, v |-> block]

\* the loop that extracts and transforms the blocks in raster order, from
\* the blocks appended so far and the generators after them (done) on
RECURSIVE blocks_loop(_, _, _, _, _)
blocks_loop(image, block_size, transform, seed, done) ==
    LET num_blocks_y == (Height(image) + block_size - 1) \div block_size
        num_blocks_x == (Width(image) + block_size - 1) \div block_size
    IN IF Len(done.v) >= num_blocks_y * num_blocks_x THEN done
       ELSE LET by == Len(done.v) \div num_blocks_x
                bx == Len(done.v) % num_blocks_x
                y1 == by * block_size
                x1 == bx * block_size
                block == Slice(image, y1, Min(y1 + block_size, Height(image)),
                               x1, Min(x1 + block_size, Width(image)))
                r == transform_block(block, transform, seed + by * num_blocks_x + bx, done.g)
            IN blocks_loop(image, block_size, transform, seed,
                           [g |-> r.g, v |-> Append(done.v, r.v)])

\* the mapping built from the shuffle order: block shuffled[i] takes the
\* content of block shuffled[(i + 1) % len]
shuffle_map(total_blocks, shuffled_indices) ==
    [idx \in 0..(total_blocks - 1) |->
        IF \E i \in 1..Len(shuffled_indices) : shuffled_indices[i] = idx
        THEN LET i == CHOOSE i \in 1..Len(shuffled_indices) : shuffled_indices[i] = idx
             IN shuffled_indices[(i % Len(shuffled_indices)) + 1]
        ELSE idx]

\* result[y1:y2, x1:x2] = block can be carried out: equal extents, or an
\* extent of 1 that numpy repeats
Fits(block, dst_h, dst_w) ==
    /\ Height(block) = dst_h \/ Height(block) = 1
    /\ Width(block) = dst_w \/ Width(block) = 1

\* the number of blocks along an axis of the given size
num_blocks(size, block_size) == (size + block_size - 1) \div block_size

\* the number of blocks shuffled
num_shuffled(total_blocks, shuffle_strength) ==
    int(total_blocks * shuffle_strength.num, shuffle_strength.den)

\* the shuffle order of BlockShuffle.apply, for at most 21 blocks: whether
\* random.sample raised ValueError, the order drawn, the generators
shuffle_order(total_blocks, shuffle_strength, seed, g) ==
    LET seeded == random_seed(g, seed)
        k == num_shuffled(total_blocks, shuffle_strength)
    IN IF k < 0 \/ k > total_blocks
       THEN [raised |-> TRUE, v |-> <<>>, g |-> seeded]
       ELSE LET sampled == sample(seeded, [i \in 1..total_blocks |-> i - 1], k)
                shuffled_indices == shuffle(sampled.g, sampled.v)
            IN [raised |-> FALSE, v |-> shuffled_indices.v, g |-> shuffled_indices.g]

\* the reassembly of BlockShuffle.apply: blocks are the transformed blocks,
\* target the mapping; the assignment of a block raises ValueError when the
\* block does not fit its region
reassemble(image, block_size, blocks, target, g) ==
    LET h == Height(image)
        w == Width(image)
        num_blocks_x == num_blocks(w, block_size)
        total_blocks == num_blocks(h, block_size) * num_blocks_x
        extent_y(by) == Min(by * block_size + block_size, h) - by * block_size
        extent_x(bx) == Min(bx * block_size + block_size, w) - bx * block_size
        \* src_h == dst_h and src_w == dst_w
        written(idx) ==
            /\ extent_y(target[idx] \div num_blocks_x) = extent_y(idx \div num_blocks_x)
            /\ extent_x(target[idx] % num_blocks_x) = extent_x(idx % num_blocks_x)
        pixel(y, x) ==
            LET by == (y - 1) \div block_size
                bx == (x - 1) \div block_size
                idx == by * num_blocks_x + bx
                block == blocks[target[idx] + 1]
            IN IF written(idx)
               THEN block[IF Height(block) = extent_y(by) THEN y - by * block_size ELSE 1]
                         [IF Width(block) = extent_x(bx) THEN x - bx * block_size ELSE 1]
               ELSE image[y][x]
    IN IF \E idx \in 0..(total_blocks - 1) :
              /\ written(idx)
              /\ ~Fits(blocks[target[idx] + 1], extent_y(idx \div num_blocks_x),
                       extent_x(idx % num_blocks_x))
       THEN RaisedWith(image, g)
       ELSE ReturnedWith([y \in 1..h |-> [x \in 1..w |-> pixel(y, x)]], g)

\* BlockShuffle.apply for block_size >= 0, a non-empty image and at most 21
\* blocks; block_size = 0 raises ZeroDivisionError
BlockShuffle_apply(image, params, g) ==
    LET block_size == Get(params, "block_size", 32)
        shuffle_strength == Get(params, "shuffle_strength", Frac(3, 10))
        block_transform == Get(params, "block_transform", "none")
        seed == Get(params, "seed", 42)
        total_blocks == num_blocks(Height(image), block_size)
                            * num_blocks(Width(image), block_size)
        order == shuffle_order(total_blocks, shuffle_strength, seed, g)
        blocks == blocks_loop(image, block_size, block_transform, seed,
                              [g |-> order.g, v |-> <<>>])
    IN IF block_size = 0 THEN RaisedWith(image, g)
       ELSE IF order.raised THEN RaisedWith(image, order.g)
       ELSE reassemble(image, block_size, blocks.v,
                       shuffle_map(total_blocks, order.v), blocks.g)

\* three draws of random.uniform(a, b)
uniform3(g, a, b) ==
    LET d1 == uniform(g, a, b)
        d2 == uniform(d1.g, a, b)
        d3 == uniform(d2.g, a, b)
    IN [g |-> d3.g, v |-> <<d1.v, d2.v, d3.v>>]

\* Warp._apply_noise: the draws that define the coordinate maps
apply_noise(amount, scale, seed, g) ==
    LET seeded == random_seed(g, seed)
        phases_x == uniform3(seeded, 0, "2pi")
        phases_y == uniform3(phases_x.g, 0, "2pi")
        freqs_x == uniform3(phases_y.g, Frac(1, 2), 2)
        freqs_y == uniform3(freqs_x.g, Frac(1, 2), 2)
    IN [g |-> freqs_y.g,
        v |-> [type |-> "noise", amount |-> amount, scale |-> scale,
               phases_x |-> phases_x.v, phases_y |-> phases_y.v,
               freqs_x |-> freqs_x.v, freqs_y |-> freqs_y.v]]

\* Warp.apply: the buffer cv2.remap returns is kept as the term of its
\* arguments, the image, the coordinate maps and the interpolation
Warp_apply(image, params, g) ==
    LET warp_type == Get(params, "type", "wave")
        amount == Get(params, "amount", 10)
        scale == Get(params, "scale", 50)
        angle == Get(params, "angle", 0)
        seed == Get(params, "seed", 42)
        interpolation == Get(params, "interpolation", "bicubic")
        maps == CASE warp_type = "wave" ->
                         [g |-> g, v |-> [type |-> "wave", amount |-> amount,
                                          scale |-> scale, angle |-> angle]]
                  [] warp_type = "noise" -> apply_noise(amount, scale, seed, g)
                  [] warp_type \notin {"wave", "noise"} -> [g |-> g, v |-> [type |-> "none"]]
    IN ReturnedWith([remap |-> image, maps |-> maps.v, interpolation |-> interpolation],
                    maps.g)

\* Grain.apply for per-channel noise that is not blurred (monochrome False,
\* size <= 1) and an amount whose fiftyfold is an integer
Grain_apply(image, params, g) ==
    LET amount == Get(params, "amount", Frac(3, 10))
        size == Get(params, "size", 2)
        monochrome == Get(params, "monochrome", FALSE)
        h == Height(image)
        w == Width(image)
        noise == np_random_normal(g, h * w * 3)
        sample_at(y, x, c) ==
            Clamp(0, int(image[y][x][c] * amount.den
                             + noise.v[((y - 1) * w + (x - 1)) * 3 + c] * 50 * amount.num,
                         amount.den), 255)
    IN CASE ~monochrome /\ size <= 1 ->
           ReturnedWith([y \in 1..h |-> [x \in 1..w |-> [c \in 1..3 |-> sample_at(y, x, c)]]],
                        noise.g)

\* effect_class.apply(image, params) with the generators: the classes that
\* draw, and the others, which leave the generators alone
Effect_apply_drawing(effect_class, image, params, g) ==
    CASE effect_class = "ShiftRowsColumns" -> ShiftRowsColumns_apply(image, params, g)
      [] effect_class = "BlockShuffle" -> BlockShuffle_apply(image, params, g)
      [] effect_class = "Warp" -> Warp_apply(image, params, g)
      [] effect_class = "Grain" -> Grain_apply(image, params, g)
      [] effect_class \in {"ChannelShuffle", "Scale", "Posterize"} ->
             LET r == Effect_apply(effect_class, image, params)
             IN [raised |-> r.raised, image |-> r.image, g |-> g]

---------------------------------------------------------------------------
(* default_params and randomize of the registered classes.  A float is    *)
(* written as an integer or as Frac(num, den).                             *)

\* 2**31 - 1, the largest seed drawn
MaxSeed == 2147483647

\* effect_class.default_params()
default_params(effect_class) ==
    CASE effect_class = "ShiftRowsColumns" ->
             [direction |-> "rows", max_shift |-> 20, smoothness |-> Frac(1, 2),
              seed |-> 42, wrap_mode |-> "wrap"]
      [] effect_class = "Warp" ->
             [type |-> "wave", amount |-> 10, scale |-> 50, angle |-> 0, seed |-> 42,
              interpolation |-> "bicubic"]
      [] effect_class = "BlockShuffle" ->
             [block_size |-> 32, shuffle_strength |-> Frac(3, 10),
              block_transform |-> "none", seed |-> 42]
      [] effect_class = "RotateFlip" ->
             [rotation |-> 0, flip_horizontal |-> FALSE, flip_vertical |-> FALSE]
      [] effect_class = "Crop" ->
             [x |-> 0, y |-> 0, width |-> 100, height |-> 100, mode |-> "percent"]
      [] effect_class = "Scale" ->
             [scale_x |-> 100, scale_y |-> 100, interpolation |-> "lanczos"]
      [] effect_class = "HSVAdjust" -> [hue_shift |-> 0, saturation |-> 1, value |-> 1]
      [] effect_class = "RGBCurves" -> [contrast |-> 0, gamma |-> 1, exposure |-> 0]
      [] effect_class = "ChannelShuffle" -> [mode |-> "rgb", mix_amount |-> Frac(3, 10)]
      [] effect_class = "Posterize" -> [levels |-> 8, dither |-> FALSE]
      [] effect_class = "Grain" ->
             [amount |-> Frac(3, 10), size |-> 2, monochrome |-> FALSE]
      [] effect_class = "SharpenBlur" ->
             [mode |-> "blur", blur_sigma |-> 2, sharpen_amount |-> 1]

\* the assignments of effect_class.randomize in order: the keys assigned,
\* the drawing function, its arguments
Draws(effect_class) ==
    CASE effect_class = "ShiftRowsColumns" ->
             << <<{"direction"}, "choice", <<"rows", "columns", "both">> >>,
                <<{"max_shift"}, "randint", <<5, 50>> >>,
                <<{"smoothness"}, "uniform", <<Frac(1, 5), Frac(4, 5)>> >>,
                <<{"seed"}, "randint", <<0, MaxSeed>> >>,
                <<{"wrap_mode"}, "choice", <<"wrap", "reflect", "clamp">> >> >>
      [] effect_class = "Warp" ->
             << <<{"type"}, "choice", <<"wave", "noise">> >>,
                <<{"amount"}, "uniform", <<5, 30>> >>,
                <<{"scale"}, "uniform", <<20, 100>> >>,
                <<{"angle"}, "uniform", <<0, 360>> >>,
                <<{"seed"}, "randint", <<0, MaxSeed>> >>,
                <<{"interpolation"}, "choice", <<"bilinear", "bicubic">> >> >>
      [] effect_class = "BlockShuffle" ->
             << <<{"block_size"}, "choice", <<8, 16, 32, 64, 128>> >>,
                <<{"shuffle_strength"}, "uniform", <<Frac(1, 10), Frac(1, 2)>> >>,
                <<{"block_transform"}, "choice", <<"none", "rotate", "flip", "jitter">> >>,
                <<{"seed"}, "randint", <<0, MaxSeed>> >> >>
      [] effect_class = "RotateFlip" ->
             << <<{"rotation"}, "choice", <<0, 90, 180, 270>> >>,
                <<{"flip_horizontal"}, "random_below", <<3, 10>> >>,
                <<{"flip_vertical"}, "random_below", <<3, 10>> >> >>
      [] effect_class = "Crop" ->
             << <<{"x"}, "randint", <<0, 20>> >>,
                <<{"y"}, "randint", <<0, 20>> >>,
                <<{"width"}, "randint", <<80, 100>> >>,
                <<{"height"}, "randint", <<80, 100>> >> >>
      [] effect_class = "Scale" ->
             << <<{"scale_x", "scale_y"}, "uniform", <<80, 120>> >>,
                <<{"interpolation"}, "choice", <<"bilinear", "bicubic", "lanczos">> >> >>
      [] effect_class = "HSVAdjust" ->
             << <<{"hue_shift"}, "randint", <<-60, 60>> >>,
                <<{"saturation"}, "uniform", <<Frac(1, 2), Frac(3, 2)>> >>,
                <<{"value"}, "uniform", <<Frac(7, 10), Frac(13, 10)>> >> >>
      [] effect_class = "RGBCurves" ->
             << <<{"contrast"}, "randint", <<-30, 30>> >>,
                <<{"gamma"}, "uniform", <<Frac(4, 5), Frac(6, 5)>> >>,
                <<{"exposure"}, "uniform", <<Frac(-1, 2), Frac(1, 2)>> >> >>
      [] effect_class = "ChannelShuffle" ->
             << <<{"mode"}, "choice", <<"rgb", "rbg", "grb", "gbr", "brg", "bgr", "mix">> >>,
                <<{"mix_amount"}, "uniform", <<Frac(1, 5), Frac(1, 2)>> >> >>
      [] effect_class = "Posterize" ->
             << <<{"levels"}, "choice", <<4, 8, 16, 32, 64>> >>,
                <<{"dither"}, "random_below", <<1, 2>> >> >>
      [] effect_class = "Grain" ->
             << <<{"amount"}, "uniform", <<Frac(1, 10), Frac(1, 2)>> >>,
                <<{"size"}, "randint", <<1, 4>> >>,
                <<{"monochrome"}, "random_below", <<3, 10>> >> >>
      [] effect_class = "SharpenBlur" ->
             << <<{"mode"}, "choice", <<"blur", "sharpen">> >>,
                <<{"blur_sigma"}, "uniform", <<1, 5>> >>,
                <<{"sharpen_amount"}, "uniform", <<Frac(1, 2), Frac(3, 2)>> >> >>

\* one drawing function by its name
Draw(g, function, args) ==
    CASE function = "choice" -> choice(g, args)
      [] function = "randint" -> randint(g, args[1], args[2])
      [] function = "uniform" -> uniform(g, args[1], args[2])
      [] function = "random_below" -> random_below(g, args[1], args[2])

\* the assignments of randomize from assignment i on
RECURSIVE randomize_loop(_, _, _, _)
randomize_loop(draws, i, params, g) ==
    IF i > Len(draws) THEN [g |-> g, v |-> params]
    ELSE LET drawn == Draw(g, draws[i][2], draws[i][3])
         IN randomize_loop(draws, i + 1,
                [key \in draws[i][1] |-> drawn.v] @@ params,    \* params[key] = ...
                drawn.g)

\* an Optional[int]: None is <<>>, the integer a is <<a>>
NoInt == <<>>

\* effect_class.randomize(params, seed): the params returned and the
\* generators after the call
randomize(effect_class, params, seed, g) ==
    LET seeded ==
            IF seed = NoInt THEN g
            ELSE IF effect_class = "Grain"
                 THEN np_random_seed(random_seed(g, seed[1]), seed[1])
                 ELSE random_seed(g, seed[1])
    IN randomize_loop(Draws(effect_class), 1, params, seeded)

---------------------------------------------------------------------------
(* PresetManager.generate_random_preset                                    *)

\* list(self.effect_registry.values()): the classes in the order the
\* registry lists them
available_effects ==
    [k \in 1..12 |->
        EFFECT_REGISTRY[<<"ShiftRowsColumns", "Warp", "BlockShuffle", "RotateFlip", "Crop",
                          "Scale", "HSVAdjust", "RGBCurves", "ChannelShuffle", "Posterize",
                          "Grain", "SharpenBlur">>[k]]]

\* the loop over selected_effects after its first i passes: the records
\* built, the seeds drawn for them, the generators
RECURSIVE generate_loop(_, _, _)
generate_loop(selected_effects, i, g) ==
    IF i = 0 THEN [seeds |-> <<>>, v |-> <<>>, g |-> g]
    ELSE LET before == generate_loop(selected_effects, i - 1, g)
             effect_class == selected_effects[i]
             seed == randint(before.g, 0, MaxSeed)
             params == randomize(effect_class, default_params(effect_class),
                                 <<seed.v>>, seed.g)
         IN [seeds |-> Append(before.seeds, seed.v),
             v |-> Append(before.v,
                          [class |-> effect_class, params |-> params.v, enabled |-> TRUE]),
             g |-> params.g]

\* k picks of random.choice
RECURSIVE choices(_, _, _, _)
choices(g, population, k, result) ==
    IF Len(result) >= k THEN [g |-> g, v |-> result]
    ELSE LET r == choice(g, population)
         IN choices(r.g, population, k, Append(result, r.v))

\* generate_random_preset picking each effect on its own
generate_random_preset_choices(num_effects, g) ==
    LET drawn == IF num_effects = NoInt THEN randint(g, 1, 3)
                 ELSE [g |-> g, v |-> num_effects[1]]
        selected == choices(drawn.g, available_effects, drawn.v, <<>>)
        out == generate_loop(selected.v, Len(selected.v), selected.g)
    IN [raised |-> FALSE, ret |-> [effects |-> out.v], g |-> out.g,
        seeds |-> out.seeds, sampled |-> selected.g]

\* generate_random_preset(num_effects): the record returned and the
\* generators after the call; seeds are the seeds drawn, sampled the
\* generators after random.sample.  A negative num_effects raises ValueError
\* in random.sample.
generate_random_preset(num_effects, g) ==
    LET drawn == IF num_effects = NoInt THEN randint(g, 1, 3)
                 ELSE [g |-> g, v |-> num_effects[1]]
        k == Min(drawn.v, Len(available_effects))
        selected == sample(drawn.g, available_effects, k)
        out == generate_loop(selected.v, Len(selected.v), selected.g)
    IN IF k < 0
       THEN [raised |-> TRUE, ret |-> <<>>, g |-> drawn.g, seeds |-> <<>>,
             sampled |-> drawn.g]
       ELSE [raised |-> FALSE, ret |-> [effects |-> out.v], g |-> out.g,
             seeds |-> out.seeds, sampled |-> selected.g]

---------------------------------------------------------------------------
(* EffectInstance                                                          *)

\* EffectInstance.__init__
EffectInstance(effect_class, params, enabled) ==
    [effect_class |-> effect_class, params |-> params, enabled |-> enabled]

\* EffectInstance.apply
EffectInstance_apply(e, image) ==
    IF ~e.enabled THEN Returned(image)
    ELSE Effect_apply(e.effect_class, image, e.params)

\* [EffectInstance(e.effect_class, deepcopy(e.params), e.enabled) for e in l]
CopyList(l) ==
    [k \in 1..Len(l) |-> EffectInstance(l[k].effect_class, l[k].params, l[k].enabled)]

---------------------------------------------------------------------------
(* Pipeline: every method maps the pipeline p = [effects, history,         *)
(* history_index] to the pipeline after the call                           *)

\* Pipeline.__init__
Pipeline == [effects |-> <<>>, history |-> <<>>, history_index |-> -1]

InRange(p, index) == 0 <= index /\ index < Len(p.effects)

\* _save_state that appends without dropping the snapshots after the cursor
save_state_keeping_future(p) ==
    LET appended == Append(p.history, CopyList(p.effects))
        index == p.history_index + 1
    IN IF Len(appended) > max_history
       THEN [p EXCEPT !.history = Tail(appended), !.history_index = index - 1]
       ELSE [p EXCEPT !.history = appended, !.history_index = index]

\* _save_state that evicts the oldest snapshot without moving the cursor
save_state_stale_cursor(p) ==
    LET kept == IF p.history_index < Len(p.history) - 1
                THEN SubSeq(p.history, 1, p.history_index + 1)
                ELSE p.history
        appended == Append(kept, CopyList(p.effects))
        index == p.history_index + 1
    IN IF Len(appended) > max_history
       THEN [p EXCEPT !.history = Tail(appended), !.history_index = index]
       ELSE [p EXCEPT !.history = appended, !.history_index = index]

\* _save_state that never evicts
save_state_uncapped(p) ==
    LET kept == IF p.history_index < Len(p.history) - 1
                THEN SubSeq(p.history, 1, p.history_index + 1)
                ELSE p.history
    IN [p EXCEPT !.history = Append(kept, CopyList(p.effects)),
                 !.history_index = p.history_index + 1]

\* Pipeline._save_state
save_state(p) ==
    LET state_copy == CopyList(p.effects)
        kept == IF p.history_index < Len(p.history) - 1
                THEN SubSeq(p.history, 1, p.history_index + 1)
                ELSE p.history
        appended == Append(kept, state_copy)
        index == p.history_index + 1
    IN IF Len(appended) > max_history
       THEN [p EXCEPT !.history = Tail(appended), !.history_index = index - 1]
       ELSE [p EXCEPT !.history = appended, !.history_index = index]

\* Pipeline.add_effect
add_effect(p, effect_class, params) ==
    save_state([p EXCEPT !.effects = Append(@, EffectInstance(effect_class, params, TRUE))])

\* remove_effect that tests only index < len(effects), so that a negative
\* index pops from the end as list.pop does
remove_effect_negative(p, index) ==
    IF index < Len(p.effects) /\ Len(p.effects) + index >= 0
    THEN save_state([p EXCEPT !.effects =
             Pop(@, IF index < 0 THEN Len(p.effects) + index ELSE index)])
    ELSE p

\* Pipeline.remove_effect
remove_effect(p, index) ==
    IF InRange(p, index)
    THEN save_state([p EXCEPT !.effects = Pop(@, index)])
    ELSE p

\* Pipeline.set_effect_enabled
set_effect_enabled(p, index, enabled) ==
    IF InRange(p, index)
    THEN save_state([p EXCEPT !.effects[index + 1].enabled = enabled])
    ELSE p

\* Pipeline.update_effect_params
update_effect_params(p, index, params) ==
    IF InRange(p, index)
    THEN save_state([p EXCEPT !.effects[index + 1].params = params])
    ELSE p

\* move_effect that inserts at to_index before it pops from_index
move_effect_insert_first(p, from_index, to_index) ==
    IF InRange(p, from_index) /\ InRange(p, to_index)
    THEN save_state([p EXCEPT !.effects =
             Pop(Insert(@, to_index, p.effects[from_index + 1]), from_index)])
    ELSE p

\* Pipeline.move_effect
move_effect(p, from_index, to_index) ==
    IF InRange(p, from_index) /\ InRange(p, to_index)
    THEN save_state([p EXCEPT !.effects =
             Insert(Pop(@, from_index), to_index, p.effects[from_index + 1])])
    ELSE p

\* Pipeline.clear
clear(p) == save_state([p EXCEPT !.effects = <<>>])

\* Pipeline.can_undo
can_undo(p) == p.history_index > 0

\* Pipeline.can_redo
can_redo(p) == p.history_index < Len(p.history) - 1

\* Pipeline.undo: the pipeline after the call and the value returned
undo(p) ==
    IF p.history_index > 0
    THEN [p |-> [p EXCEPT !.history_index = @ - 1,
                          !.effects = CopyList(p.history[p.history_index])],
          ret |-> TRUE]
    ELSE [p |-> p, ret |-> FALSE]

\* Pipeline.redo: the pipeline after the call and the value returned
redo(p) ==
    IF p.history_index < Len(p.history) - 1
    THEN [p |-> [p EXCEPT !.history_index = @ + 1,
                          !.effects = CopyList(p.history[p.history_index + 2])],
          ret |-> TRUE]
    ELSE [p |-> p, ret |-> FALSE]

\* a decoding loop that stops at the first identifier the registry lacks
RECURSIVE from_dict_loop_stopping(_, _, _, _)
from_dict_loop_stopping(records, i, acc, effect_registry) ==
    IF i > Len(records) THEN [effects |-> acc, raised |-> FALSE]
    ELSE LET effect_data == records[i] IN
         IF "class" \notin DOMAIN effect_data THEN [effects |-> acc, raised |-> TRUE]
         ELSE IF effect_data["class"] \in DOMAIN effect_registry
              THEN from_dict_loop_stopping(records, i + 1,
                       Append(acc, EffectInstance(effect_registry[effect_data["class"]],
                                                  Get(effect_data, "params", <<>>),
                                                  Get(effect_data, "enabled", TRUE))),
                       effect_registry)
              ELSE [effects |-> acc, raised |-> FALSE]

\* the loop of Pipeline.from_dict over data["effects"], from record i on:
\* the instances appended so far and whether a record raised (KeyError for
\* a record without "class")
RECURSIVE from_dict_loop(_, _, _, _)
from_dict_loop(records, i, acc, effect_registry) ==
    IF i > Len(records) THEN [effects |-> acc, raised |-> FALSE]
    ELSE LET effect_data == records[i] IN
         IF "class" \notin DOMAIN effect_data THEN [effects |-> acc, raised |-> TRUE]
         ELSE IF effect_data["class"] \in DOMAIN effect_registry
              THEN from_dict_loop(records, i + 1,
                       Append(acc, EffectInstance(effect_registry[effect_data["class"]],
                                                  Get(effect_data, "params", <<>>),
                                                  Get(effect_data, "enabled", TRUE))),
                       effect_registry)
              ELSE from_dict_loop(records, i + 1, acc, effect_registry)

\* Pipeline.from_dict: the pipeline after the call and whether it raised
from_dict(p, data, effect_registry) ==
    LET loaded == from_dict_loop(Get(data, "effects", <<>>), 1, <<>>, effect_registry)
        reset == [effects |-> loaded.effects, history |-> <<>>, history_index |-> -1]
    IN IF loaded.raised
       THEN [p |-> [p EXCEPT !.effects = loaded.effects], raised |-> TRUE]
       ELSE [p |-> IF Len(loaded.effects) > 0 THEN save_state(reset) ELSE reset,
             raised |-> FALSE]

\* Logger.error -> Logger.log: the entry appended to Logger.logs
Logger_error(entries, message) ==
    Append(entries, [level |-> "ERROR", message |-> message])

\* Logger.info -> Logger.log: the entry appended to Logger.logs
Logger_info(entries, message) ==
    Append(entries, [level |-> "INFO", message |-> message])

\* the loop of Pipeline.apply from instance i on: p is the pipeline, result
\* the buffer so far, entries the logger's entries
RECURSIVE apply_loop(_, _, _, _)
apply_loop(p, i, result, entries) ==
    IF i > Len(p.effects)
    THEN [p |-> p, result |-> result, logs |-> entries, raised |-> FALSE]
    ELSE LET effect == p.effects[i] IN
         IF effect.enabled
         THEN LET r == EffectInstance_apply(effect, result) IN
              IF r.raised
              THEN apply_loop(p, i + 1, result,
                       Logger_error(entries, <<"Error applying effect", name(effect.effect_class)>>))
              ELSE apply_loop(p, i + 1, r.image, entries)
         ELSE apply_loop(p, i + 1, result, entries)

\* apply that runs the newest snapshot of the history instead of the live list
apply_latest_snapshot(p, image, entries) ==
    LET q == IF p.history = <<>> THEN p
             ELSE [p EXCEPT !.effects = p.history[Len(p.history)]]
        out == apply_loop(q, 1, image, entries)
    IN [p |-> p, image |-> image, result |-> out.result,
        logs |-> out.logs, raised |-> out.raised]

\* apply that calls effect_class.apply for every instance, enabled or not
apply_ignoring_enabled(p, image, entries) ==
    LET q == [p EXCEPT !.effects =
                 [k \in 1..Len(p.effects) |-> [p.effects[k] EXCEPT !.enabled = TRUE]]]
        out == apply_loop(q, 1, image, entries)
    IN [p |-> p, image |-> image, result |-> out.result,
        logs |-> out.logs, raised |-> out.raised]

\* apply without the try/except around the step: the first failing step
\* ends the call with its exception
apply_no_catch(p, image, entries) ==
    LET out == apply_loop(p, 1, image, entries)
    IN IF out.logs # entries
       THEN [p |-> p, image |-> image, result |-> <<>>,
             logs |-> entries, raised |-> TRUE]
       ELSE [p |-> p, image |-> image, result |-> out.result,
             logs |-> entries, raised |-> FALSE]

\* the loop of an apply whose except branch also disables the failing instance
RECURSIVE apply_loop_disabling(_, _, _, _)
apply_loop_disabling(p, i, result, entries) ==
    IF i > Len(p.effects)
    THEN [p |-> p, result |-> result, logs |-> entries, raised |-> FALSE]
    ELSE LET effect == p.effects[i] IN
         IF effect.enabled
         THEN LET r == EffectInstance_apply(effect, result) IN
              IF r.raised
              THEN apply_loop_disabling([p EXCEPT !.effects[i].enabled = FALSE], i + 1, result,
                       Logger_error(entries, <<"Error applying effect", name(effect.effect_class)>>))
              ELSE apply_loop_disabling(p, i + 1, r.image, entries)
         ELSE apply_loop_disabling(p, i + 1, result, entries)

\* apply whose except branch also disables the failing instance
apply_disabling_failed(p, image, entries) ==
    LET out == apply_loop_disabling(p, 1, image, entries)
    IN [p |-> out.p, image |-> image, result |-> out.result,
        logs |-> out.logs, raised |-> out.raised]

\* Pipeline.apply: the pipeline and the caller's buffer after the call, the
\* buffer returned, the logger's entries, and whether the call raised
apply(p, image, entries) ==
    LET out == apply_loop(p, 1, image, entries)     \* result = image.copy()
    IN [p |-> out.p, image |-> image, result |-> out.result,
        logs |-> out.logs, raised |-> out.raised]

---------------------------------------------------------------------------
(* Preset codec: Pipeline.to_dict, PresetManager.load_preset and the       *)
(* window's handler that decodes a preset file into the pipeline           *)

\* to_dict that writes the display name of the class as its identifier
to_dict_display_name(p) ==
    [effects |-> [k \in 1..Len(p.effects) |->
                    [class |-> name(p.effects[k].effect_class),
                     params |-> p.effects[k].params,
                     enabled |-> p.effects[k].enabled]]]

\* Pipeline.to_dict: one record per instance, "class" being the __name__ of
\* its class
to_dict(p) ==
    [effects |-> [k \in 1..Len(p.effects) |->
                    [class |-> p.effects[k].effect_class,
                     params |-> p.effects[k].params,
                     enabled |-> p.effects[k].enabled]]]

\* a preset file: absent, not JSON, or the JSON value it holds
MissingFile == [kind |-> "missing"]
CorruptFile == [kind |-> "corrupt"]
JsonFile(value) == [kind |-> "json", value |-> value]

\* the Optional[dict] a call returns: None, or a dict
None == [absent |-> TRUE, data |-> <<>>]
Some(data) == [absent |-> FALSE, data |-> data]

\* bool(x) of an Optional[dict]
Truthy(x) == ~x.absent /\ DOMAIN x.data # {}

\* PresetManager.load_preset: the value returned and the logger's entries;
\* open() or json.load() raising is caught and logged
load_preset(file, entries) ==
    IF file.kind # "json"
    THEN [ret |-> None,
          logs |-> Logger_error(entries, <<"Failed to load preset from", file.kind>>)]
    ELSE IF "pipeline" \in DOMAIN file.value
         THEN [ret |-> Some(file.value["pipeline"]), logs |-> entries]
         ELSE [ret |-> Some(file.value), logs |-> entries]

\* MainWindow.on_load_preset once a file is chosen (the widgets it refreshes
\* are not modelled): the pipeline after the call, whether the preset was
\* loaded, whether the call raised, the logger's entries
on_load_preset(p, file, entries) ==
    LET preset_data == load_preset(file, entries) IN
    IF Truthy(preset_data.ret)
    THEN LET r == from_dict(p, preset_data.ret.data, EFFECT_REGISTRY)
         IN IF r.raised
            THEN [p |-> r.p, loaded |-> FALSE, raised |-> TRUE, logs |-> preset_data.logs]
            ELSE [p |-> r.p, loaded |-> TRUE, raised |-> FALSE,
                  logs |-> Logger_info(preset_data.logs, <<"Loaded preset">>)]
    ELSE [p |-> p, loaded |-> FALSE, raised |-> FALSE, logs |-> preset_data.logs]

---------------------------------------------------------------------------
(* Inputs of the calls                                                     *)

\* (effect_class, params) pairs passed to add_effect
AddInputs ==
    { <<"ChannelShuffle", [mode |-> "gbr"]>>,
      <<"ChannelShuffle", [mode |-> "rbg"]>>,
      <<"Scale", [scale_x |-> 0]>> }

\* params dicts passed to update_effect_params
ParamInputs == { [mode |-> "rbg"], [scale_x |-> 0] }

\* indices passed to the indexed calls: one below, all in range, one above
IndexInputs == -1..Len(effects)

\* image buffers passed to apply
ImageInputs ==
    { << << <<10, 128, 200>>, <<0, 255, 128>> >> >>,
      << << <<128, 128, 128>> >>, << <<1, 2, 3>> >> >> }

\* records passed to from_dict: no effects; an unknown identifier followed by
\* a known one without "params" and "enabled"; a record without "class"
\* after a good one
DataInputs ==
    { [effects |-> <<>>],
      [effects |-> << [class |-> "Vignette", params |-> <<>>, enabled |-> TRUE],
                      [class |-> "Scale"] >>],
      [effects |-> << [class |-> "ChannelShuffle", params |-> [mode |-> "gbr"],
                       enabled |-> FALSE],
                      [params |-> <<>>] >>] }

\* the "pipeline" objects of preset files: an unknown identifier between two
\* known ones; no effects; only an unknown identifier; a record without
\* "class" after a good one
PresetInputs ==
    { [effects |-> << [class |-> "ChannelShuffle", params |-> [mode |-> "rbg"],
                       enabled |-> FALSE],
                      [class |-> "Vignette", params |-> <<>>, enabled |-> TRUE],
                      [class |-> "Scale", params |-> [scale_x |-> 0], enabled |-> TRUE] >>],
      [effects |-> <<>>],
      [effects |-> << [class |-> "Vignette", params |-> <<>>, enabled |-> TRUE] >>],
      [effects |-> << [class |-> "ChannelShuffle", params |-> [mode |-> "gbr"],
                       enabled |-> FALSE],
                      [params |-> <<>>] >>] }

\* preset files: absent; not JSON; the current format; the old format (the
\* pipeline object at the top level); an empty JSON object
FileInputs ==
    {MissingFile, CorruptFile, JsonFile(<<>>)}
    \cup {JsonFile([version |-> "1.0", pipeline |-> data]) : data \in PresetInputs}
    \cup {JsonFile(data) : data \in PresetInputs}

---------------------------------------------------------------------------
(* The state machine                                                       *)

\* the pipeline object in the current state
Self == [effects |-> effects, history |-> history, history_index |-> history_index]

NoBuffer == <<>>

\* no object is tracked by identity
NoHeap == <<>>

\* no thread is running
NoThreads == <<>>


\* the pipeline becomes q; last records the call:
\* op is the method, ok whether it took effect (an indexed call was in range,
\* undo/redo returned True, the call did not raise), arg the buffer passed,
\* image the caller's buffer after the call, result the buffer returned
Becomes(q, op, ok, raised, arg, image, result) ==
    /\ effects' = q.effects
    /\ history' = q.history
    /\ history_index' = q.history_index
    /\ last' = [op |-> op, ok |-> ok, raised |-> raised, pre |-> Self,
                prelogs |-> logs, prevop |-> last.op, prevok |-> last.ok,
                arg |-> arg, image |-> image, result |-> result]
    /\ steps' = steps + 1
    /\ UNCHANGED <<heap, rng, threads>>

NoCall(p) ==
    [op |-> "init", ok |-> TRUE, raised |-> FALSE, pre |-> p, prelogs |-> <<>>,
     prevop |-> "none", prevok |-> TRUE,
     arg |-> NoBuffer, image |-> NoBuffer, result |-> NoBuffer]

\* a freshly constructed pipeline
Init ==
    /\ effects = Pipeline.effects
    /\ history = Pipeline.history
    /\ history_index = Pipeline.history_index
    /\ logs = <<>>
    /\ last = NoCall(Pipeline)
    /\ steps = 0
    /\ heap = NoHeap
    /\ rng = Generators(0, 0)
    /\ threads = NoThreads

\* the pipeline after add_effect(ChannelShuffle, {"mode": "gbr"}) and n - 1
\* calls set_effect_enabled(0, not enabled), for 1 <= n <= max_history: n
\* snapshots, the k-th holding the instance enabled iff k is odd
Warm(n) ==
    LET instance(k) == EffectInstance("ChannelShuffle", [mode |-> "gbr"], k % 2 = 1)
    IN [effects |-> <<instance(n)>>,
        history |-> [k \in 1..n |-> <<instance(k)>>],
        history_index |-> n - 1]

\* a pipeline that has recorded WarmEdits edits
InitCap ==
    LET q == Warm(WarmEdits) IN
    /\ effects = q.effects
    /\ history = q.history
    /\ history_index = q.history_index
    /\ logs = <<>>
    /\ last = NoCall(q)
    /\ steps = 0
    /\ heap = NoHeap
    /\ rng = Generators(0, 0)
    /\ threads = NoThreads

CallAddEffect ==
    /\ steps < MaxOps
    /\ Len(effects) < MaxEffects
    /\ \E a \in AddInputs :
           Becomes(add_effect(Self, a[1], a[2]), "add_effect", TRUE, FALSE, NoBuffer, NoBuffer, NoBuffer)
    /\ UNCHANGED logs

CallRemoveEffect ==
    /\ steps < MaxOps
    /\ \E index \in IndexInputs :
           Becomes(remove_effect(Self, index), "remove_effect", InRange(Self, index),
                   FALSE, NoBuffer, NoBuffer, NoBuffer)
    /\ UNCHANGED logs

CallSetEffectEnabled ==
    /\ steps < MaxOps
    /\ \E index \in IndexInputs, enabled \in BOOLEAN :
           Becomes(set_effect_enabled(Self, index, enabled), "set_effect_enabled",
                   InRange(Self, index), FALSE, NoBuffer, NoBuffer, NoBuffer)
    /\ UNCHANGED logs

CallUpdateEffectParams ==
    /\ steps < MaxOps
    /\ \E index \in IndexInputs, params \in ParamInputs :
           Becomes(update_effect_params(Self, index, params), "update_effect_params",
                   InRange(Self, index), FALSE, NoBuffer, NoBuffer, NoBuffer)
    /\ UNCHANGED logs

CallMoveEffect ==
    /\ steps < MaxOps
    /\ \E from_index \in IndexInputs, to_index \in IndexInputs :
           Becomes(move_effect(Self, from_index, to_index), "move_effect",
                   InRange(Self, from_index) /\ InRange(Self, to_index),
                   FALSE, NoBuffer, NoBuffer, NoBuffer)
    /\ UNCHANGED logs

CallClear ==
    /\ steps < MaxOps
    /\ Becomes(clear(Self), "clear", TRUE, FALSE, NoBuffer, NoBuffer, NoBuffer)
    /\ UNCHANGED logs

CallUndo ==
    /\ steps < MaxOps
    /\ LET r == undo(Self) IN Becomes(r.p, "undo", r.ret, FALSE, NoBuffer, NoBuffer, NoBuffer)
    /\ UNCHANGED logs

CallRedo ==
    /\ steps < MaxOps
    /\ LET r == redo(Self) IN Becomes(r.p, "redo", r.ret, FALSE, NoBuffer, NoBuffer, NoBuffer)
    /\ UNCHANGED logs

CallFromDict ==
    /\ steps < MaxOps
    /\ \E data \in DataInputs :
           LET r == from_dict(Self, data, EFFECT_REGISTRY)
           IN Becomes(r.p, "from_dict", ~r.raised, r.raised, data, NoBuffer, NoBuffer)
    /\ UNCHANGED logs

CallApply ==
    /\ steps < MaxOps
    /\ \E image \in ImageInputs :
           LET r == apply(Self, image, logs)
           IN /\ Becomes(r.p, "apply", ~r.raised, r.raised, image, r.image, r.result)
              /\ logs' = r.logs

Next ==
    \/ CallAddEffect
    \/ CallRemoveEffect
    \/ CallSetEffectEnabled
    \/ CallUpdateEffectParams
    \/ CallMoveEffect
    \/ CallClear
    \/ CallUndo
    \/ CallRedo
    \/ CallFromDict
    \/ CallApply

Spec == Init /\ [][Next]_vars

SpecCap == InitCap /\ [][Next]_vars

---------------------------------------------------------------------------
(* The preset codec driven together with the pipeline                      *)

\* from_dict(to_dict()) on the pipeline itself; last.arg is the record
CallToDictFromDict ==
    /\ steps < MaxOps
    /\ LET data == to_dict(Self)
           r == from_dict(Self, data, EFFECT_REGISTRY)
       IN Becomes(r.p, "to_dict_from_dict", ~r.raised, r.raised, data, NoBuffer, NoBuffer)
    /\ UNCHANGED logs

\* the window loads a preset file; last.arg is the file
CallLoadPreset ==
    /\ steps < MaxOps
    /\ \E file \in FileInputs :
           LET r == on_load_preset(Self, file, logs)
           IN /\ Becomes(r.p, "load_preset", r.loaded, r.raised, file, NoBuffer, NoBuffer)
              /\ logs' = r.logs

NextPreset ==
    \/ CallAddEffect
    \/ CallSetEffectEnabled
    \/ CallUndo
    \/ CallFromDict
    \/ CallToDictFromDict
    \/ CallLoadPreset

SpecPreset == Init /\ [][NextPreset]_vars

---------------------------------------------------------------------------
(* The pipeline at the level of object identity.  heap.objects is the      *)
(* sequence of objects created so far, an object's identity its position;  *)
(* a dict is [kind, items], an EffectInstance [kind, effect_class, params, *)
(* enabled] with params the identity of a dict.  effects and the snapshots *)
(* of history are lists of identities of instances; heap.held are the      *)
(* dicts the caller of the pipeline keeps a reference to.                  *)

Dict(items) == [kind |-> "dict", items |-> items]

Instance(effect_class, params, enabled) ==
    [kind |-> "EffectInstance", effect_class |-> effect_class,
     params |-> params, enabled |-> enabled]

\* the pipeline object with its heap
HeapSelf ==
    [effects |-> effects, history |-> history, history_index |-> history_index,
     objects |-> heap.objects, held |-> heap.held]

\* a list copy that builds new instances around the same params dicts
RECURSIVE obj_CopyList_shallow(_, _, _)
obj_CopyList_shallow(objects, l, acc) ==
    IF l = <<>> THEN [objects |-> objects, list |-> acc]
    ELSE LET e == objects[Head(l)]
             with_instance == Append(objects, Instance(e.effect_class, e.params, e.enabled))
         IN obj_CopyList_shallow(with_instance, Tail(l), Append(acc, Len(with_instance)))

\* [EffectInstance(e.effect_class, deepcopy(e.params), e.enabled) for e in l]:
\* the heap with the new dicts and instances, and the list of the new
\* instances
RECURSIVE obj_CopyList(_, _, _)
obj_CopyList(objects, l, acc) ==
    IF l = <<>> THEN [objects |-> objects, list |-> acc]
    ELSE LET e == objects[Head(l)]
             with_dict == Append(objects, Dict(objects[e.params].items))
             with_instance ==
                 Append(with_dict, Instance(e.effect_class, Len(with_dict), e.enabled))
         IN obj_CopyList(with_instance, Tail(l), Append(acc, Len(with_instance)))

\* Pipeline._save_state
obj_save_state(m) ==
    LET state_copy == obj_CopyList(m.objects, m.effects, <<>>)
        kept == IF m.history_index < Len(m.history) - 1
                THEN SubSeq(m.history, 1, m.history_index + 1)
                ELSE m.history
        appended == Append(kept, state_copy.list)
        index == m.history_index + 1
    IN IF Len(appended) > max_history
       THEN [m EXCEPT !.objects = state_copy.objects,
                      !.history = Tail(appended), !.history_index = index - 1]
       ELSE [m EXCEPT !.objects = state_copy.objects,
                      !.history = appended, !.history_index = index]

\* Pipeline.add_effect: the instance keeps the dict it is given
obj_add_effect(m, effect_class, params) ==
    LET objects == Append(m.objects, Instance(effect_class, params, TRUE))
    IN obj_save_state([m EXCEPT !.objects = objects,
                                !.effects = Append(@, Len(objects))])

\* Pipeline.set_effect_enabled: the instance is changed in place
obj_set_effect_enabled(m, index, enabled) ==
    IF 0 <= index /\ index < Len(m.effects)
    THEN obj_save_state([m EXCEPT !.objects[m.effects[index + 1]].enabled = enabled])
    ELSE m

\* Pipeline.update_effect_params: the instance takes the dict it is given
obj_update_effect_params(m, index, params) ==
    IF 0 <= index /\ index < Len(m.effects)
    THEN obj_save_state([m EXCEPT !.objects[m.effects[index + 1]].params = params])
    ELSE m

\* Pipeline.undo
obj_undo(m) ==
    IF m.history_index > 0
    THEN LET copy == obj_CopyList(m.objects, m.history[m.history_index], <<>>)
         IN [p |-> [m EXCEPT !.history_index = @ - 1, !.objects = copy.objects,
                             !.effects = copy.list],
             ret |-> TRUE]
    ELSE [p |-> m, ret |-> FALSE]

\* Pipeline.redo
obj_redo(m) ==
    IF m.history_index < Len(m.history) - 1
    THEN LET copy == obj_CopyList(m.objects, m.history[m.history_index + 2], <<>>)
         IN [p |-> [m EXCEPT !.history_index = @ + 1, !.objects = copy.objects,
                             !.effects = copy.list],
             ret |-> TRUE]
    ELSE [p |-> m, ret |-> FALSE]

\* the instance list a list of identities denotes
Deref(objects, l) ==
    [k \in 1..Len(l) |->
        EffectInstance(objects[l[k]].effect_class,
                       objects[objects[l[k]].params].items,
                       objects[l[k]].enabled)]

\* the snapshots a history of identity lists denotes
Content(m) == [k \in 1..Len(m.history) |-> Deref(m.objects, m.history[k])]

\* the items of the dicts a caller builds
ItemInputs == { [mode |-> "gbr"], [mode |-> "rbg"] }

\* the dicts of the live instances
LiveDicts(m) == {m.objects[m.effects[k]].params : k \in 1..Len(m.effects)}

\* the pipeline becomes m; last records the call and what the snapshots
\* denoted before it
HeapBecomes(m, op, ok) ==
    /\ effects' = m.effects
    /\ history' = m.history
    /\ history_index' = m.history_index
    /\ heap' = [objects |-> m.objects, held |-> m.held]
    /\ last' = [op |-> op, ok |-> ok, prevop |-> last.op,
                pre |-> [content |-> Content(HeapSelf), effects |-> effects,
                         history_index |-> history_index]]
    /\ steps' = steps + 1
    /\ UNCHANGED <<logs, rng, threads>>

\* a freshly constructed pipeline and no other object
InitHeap ==
    /\ effects = Pipeline.effects
    /\ history = Pipeline.history
    /\ history_index = Pipeline.history_index
    /\ heap = [objects |-> <<>>, held |-> {}]
    /\ logs = <<>>
    /\ last = [op |-> "init", ok |-> TRUE, prevop |-> "none",
               pre |-> [content |-> <<>>, effects |-> <<>>, history_index |-> -1]]
    /\ steps = 0
    /\ rng = Generators(0, 0)
    /\ threads = NoThreads

\* add_effect with a dict the caller builds for the call and keeps
HeapAddEffectNewDict ==
    /\ steps < MaxOps
    /\ Len(effects) < MaxEffects
    /\ \E items \in ItemInputs :
           LET objects == Append(heap.objects, Dict(items))
               m == [HeapSelf EXCEPT !.objects = objects,
                                     !.held = @ \cup {Len(objects)}]
           IN HeapBecomes(obj_add_effect(m, "ChannelShuffle", Len(objects)),
                          "add_effect", TRUE)

\* add_effect with a dict the caller has passed before
HeapAddEffectHeldDict ==
    /\ steps < MaxOps
    /\ Len(effects) < MaxEffects
    /\ \E params \in heap.held :
           HeapBecomes(obj_add_effect(HeapSelf, "ChannelShuffle", params),
                       "add_effect", TRUE)

HeapSetEffectEnabled ==
    /\ steps < MaxOps
    /\ \E index \in IndexInputs, enabled \in BOOLEAN :
           HeapBecomes(obj_set_effect_enabled(HeapSelf, index, enabled),
                       "set_effect_enabled", InRange(Self, index))

\* update_effect_params with a dict the caller holds
HeapUpdateEffectParams ==
    /\ steps < MaxOps
    /\ \E index \in IndexInputs, params \in heap.held :
           HeapBecomes(obj_update_effect_params(HeapSelf, index, params),
                       "update_effect_params", InRange(Self, index))

HeapUndo ==
    /\ steps < MaxOps
    /\ LET r == obj_undo(HeapSelf) IN HeapBecomes(r.p, "undo", r.ret)

HeapRedo ==
    /\ steps < MaxOps
    /\ LET r == obj_redo(HeapSelf) IN HeapBecomes(r.p, "redo", r.ret)

\* the caller changes in place a dict it holds, or the dict of a live
\* instance reached through get_effects()
HeapChangeDictInPlace ==
    /\ steps < MaxOps
    /\ \E d \in heap.held \cup LiveDicts(HeapSelf), items \in ItemInputs :
           /\ heap.objects[d].items # items
           /\ HeapBecomes([HeapSelf EXCEPT !.objects[d].items = items],
                          "change_dict", d \in LiveDicts(HeapSelf))

NextHeap ==
    \/ HeapAddEffectNewDict
    \/ HeapAddEffectHeldDict
    \/ HeapSetEffectEnabled
    \/ HeapUpdateEffectParams
    \/ HeapUndo
    \/ HeapRedo
    \/ HeapChangeDictInPlace

SpecHeap == InitHeap /\ [][NextHeap]_vars

---------------------------------------------------------------------------
(* The pipeline of drawing effects run with the process-wide generators    *)

\* EffectInstance.apply with the generators
EffectInstance_apply_drawing(e, image, g) ==
    IF ~e.enabled THEN ReturnedWith(image, g)
    ELSE Effect_apply_drawing(e.effect_class, image, e.params, g)

\* one pass of the loop of Pipeline.apply over an enabled instance: before is
\* the loop's state before the pass, r what effect.apply did
apply_pass(before, effect, r) ==
    IF r.raised
    THEN [before EXCEPT
             !.logs = Logger_error(@, <<"Error applying effect", name(effect.effect_class)>>),
             !.g = r.g]
    ELSE [before EXCEPT !.result = r.image, !.g = r.g]

\* the loop of Pipeline.apply after its first i passes, with the generators
RECURSIVE apply_loop_drawing(_, _, _, _, _)
apply_loop_drawing(p, i, image, entries, g) ==
    IF i = 0
    THEN [p |-> p, image |-> image, result |-> image,      \* result = image.copy()
          logs |-> entries, raised |-> FALSE, g |-> g]
    ELSE LET before == apply_loop_drawing(p, i - 1, image, entries, g)
             effect == p.effects[i]
         IN IF ~effect.enabled THEN before
            ELSE apply_pass(before, effect,
                     EffectInstance_apply_drawing(effect, before.result, before.g))

\* Pipeline.apply with the generators: the pipeline and the caller's buffer
\* after the call, the buffer returned, the logger's entries, the generators
apply_drawing(p, image, entries, g) ==
    apply_loop_drawing(p, Len(p.effects), image, entries, g)

\* EffectPanel.on_randomize for the class selected: the params shown and the
\* generators after the handler
on_randomize(current_effect_class, g) ==
    LET seed == randint(g, 0, MaxSeed)
    IN randomize(current_effect_class, default_params(current_effect_class),
                 <<seed.v>>, seed.g)

\* the class and params of the drawing effects added: rows shifted one way
\* or the other; rows and columns; every tile moved and flipped, or jittered;
\* a noise warp; per-channel grain
DrawingInputs ==
    { <<"ShiftRowsColumns", [direction |-> "rows", max_shift |-> 1,
                             smoothness |-> Frac(1, 2), seed |-> 1, wrap_mode |-> "wrap"]>>,
      <<"ShiftRowsColumns", [direction |-> "both", max_shift |-> 1,
                             smoothness |-> Frac(1, 2), seed |-> 2, wrap_mode |-> "clamp"]>>,
      <<"BlockShuffle", [block_size |-> 1, shuffle_strength |-> Frac(1, 1),
                         block_transform |-> "jitter", seed |-> 1]>>,
      <<"Warp", [type |-> "noise", amount |-> 10, scale |-> 50, seed |-> 3]>>,
      <<"Grain", [amount |-> Frac(1, 5), size |-> 1, monochrome |-> FALSE]>> }

\* buffers of two rows of two pixels, and of one row
DrawingImageInputs ==
    { << << <<10, 128, 200>>, <<0, 255, 128>> >>,
         << <<1, 2, 3>>, <<128, 128, 128>> >> >>,
      << << <<10, 128, 200>>, <<0, 255, 128>> >> >> }

\* calls made on the pipeline of drawing effects
MaxRngOps == 3

\* the classes selected in the panel when Randomize is pressed
RandomizeInputs == {"Grain", "Warp", "Posterize"}

\* the pipeline becomes q and the generators g; last records the call: cls
\* and params the effect, arg the buffer passed, result the buffer returned,
\* pre_rng the generators before it
RngBecomes(q, g, op, raised, cls, params, arg, result) ==
    /\ effects' = q.effects
    /\ history' = q.history
    /\ history_index' = q.history_index
    /\ rng' = g
    /\ last' = [op |-> op, ok |-> ~raised, raised |-> raised, pre |-> Self,
                pre_rng |-> rng, prevop |-> last.op, cls |-> cls, params |-> params,
                arg |-> arg, result |-> result]
    /\ steps' = steps + 1
    /\ UNCHANGED <<heap, threads>>

\* a freshly constructed pipeline in a process that has drawn nothing
InitRng ==
    /\ effects = Pipeline.effects
    /\ history = Pipeline.history
    /\ history_index = Pipeline.history_index
    /\ logs = <<>>
    /\ last = [op |-> "init", ok |-> TRUE, raised |-> FALSE, pre |-> Pipeline,
               pre_rng |-> Generators(0, 0), prevop |-> "none", cls |-> "none",
               params |-> <<>>, arg |-> NoBuffer, result |-> NoBuffer]
    /\ steps = 0
    /\ heap = NoHeap
    /\ rng = Generators(0, 0)
    /\ threads = NoThreads

\* add_effect; a Warp stays last in the list, because what cv2.remap returns
\* is a term no later effect can read
RngAddEffect ==
    /\ steps < MaxRngOps
    /\ Len(effects) < MaxEffects
    /\ \A k \in 1..Len(effects) : effects[k].effect_class # "Warp"
    /\ \E in \in DrawingInputs :
           RngBecomes(add_effect(Self, in[1], in[2]), rng, "add_effect", FALSE,
                      in[1], in[2], NoBuffer, NoBuffer)
    /\ UNCHANGED logs

\* the Randomize button: the params go to the panel's widgets
RngOnRandomize ==
    /\ steps < MaxRngOps
    /\ \E cls \in RandomizeInputs :
           LET r == on_randomize(cls, rng)
           IN RngBecomes(Self, r.g, "on_randomize", FALSE, cls, r.v, NoBuffer, NoBuffer)
    /\ UNCHANGED logs

\* one effect applied to a buffer
RngEffectApply ==
    /\ steps < MaxRngOps
    /\ \E in \in DrawingInputs, image \in DrawingImageInputs :
           \E r \in {Effect_apply_drawing(in[1], image, in[2], rng)} :
               RngBecomes(Self, r.g, "effect_apply", r.raised, in[1], in[2], image,
                          [raised |-> r.raised, image |-> r.image])
    /\ UNCHANGED logs

RngApply ==
    /\ steps < MaxRngOps
    /\ \E image \in DrawingImageInputs :
           \E r \in {apply_drawing(Self, image, logs, rng)} :
               /\ RngBecomes(r.p, r.g, "apply", r.raised, "none", <<>>, image, r.result)
               /\ logs' = r.logs

NextRng ==
    \/ RngAddEffect
    \/ RngOnRandomize
    \/ RngEffectApply
    \/ RngApply

SpecRng == InitRng /\ [][NextRng]_vars

---------------------------------------------------------------------------
(* Two ProcessingThreads, each applying its own pipeline of one            *)
(* ShiftRowsColumns effect (direction "rows") with its own seed.  The      *)
(* interpreter may switch threads between any two calls of the random      *)
(* module, so each call is one step.  A thread is at "apply" (before       *)
(* random.seed of apply), "rows" (before random.seed of _shift_rows),      *)
(* "draw" (the loop that draws, at row i), "roll" (the loop that applies   *)
(* the shifts) or "done".                                                  *)

Threads == {1, 2}

\* the image each thread processes: three rows of two pixels
ThreadImage ==
    << << <<1, 1, 1>>, <<2, 2, 2>> >>,
       << <<3, 3, 3>>, <<4, 4, 4>> >>,
       << <<5, 5, 5>>, <<6, 6, 6>> >> >>

\* the params of the effect of a thread's pipeline
ThreadParams(seed) ==
    [direction |-> "rows", max_shift |-> 1, smoothness |-> Frac(1, 2), seed |-> seed,
     wrap_mode |-> "wrap"]

\* the seeds of the two pipelines: different ones
SeedInputs == { <<1, 2>>, <<2, 1>>, <<3, 8>>, <<0, 5>> }

\* the process has moved the generator before the threads start
InitThreads ==
    /\ effects = Pipeline.effects
    /\ history = Pipeline.history
    /\ history_index = Pipeline.history_index
    /\ logs = <<>>
    /\ last = NoCall(Pipeline)
    /\ steps = 0
    /\ heap = NoHeap
    /\ rng \in {Generators(0, 0), Generators(9, 0)}
    /\ \E seeds \in SeedInputs :
           threads = [t \in Threads |->
                         [pc |-> "apply", params |-> ThreadParams(seeds[t]), i |-> 0,
                          shifts |-> <<>>, result |-> NoBuffer]]

\* thread t takes one step and the generators become g
ThreadBecomes(t, g, state) ==
    /\ threads' = [threads EXCEPT ![t] = state]
    /\ rng' = g
    /\ UNCHANGED <<effects, history, history_index, logs, last, steps, heap>>

\* random.seed(seed) of ShiftRowsColumns.apply
ThreadSeedApply(t) ==
    /\ threads[t].pc = "apply"
    /\ ThreadBecomes(t, random_seed(rng, threads[t].params.seed),
                     [threads[t] EXCEPT !.pc = "rows"])

\* random.seed(seed) of _shift_rows
ThreadSeedRows(t) ==
    /\ threads[t].pc = "rows"
    /\ ThreadBecomes(t, random_seed(rng, threads[t].params.seed),
                     [threads[t] EXCEPT !.pc = "draw"])

\* one pass of the loop of _shift_rows that draws
ThreadDraw(t) ==
    /\ threads[t].pc = "draw"
    /\ threads[t].i < Height(ThreadImage)
    /\ LET drawn == shifts_loop(rng, threads[t].i, threads[t].i + 1,
                                threads[t].params.max_shift, threads[t].params.smoothness,
                                threads[t].shifts)
       IN ThreadBecomes(t, drawn.g,
              [threads[t] EXCEPT !.i = @ + 1, !.shifts = drawn.v,
                                 !.pc = IF threads[t].i + 1 < Height(ThreadImage)
                                        THEN "draw" ELSE "roll"])

\* the loop of _shift_rows that applies the shifts, and the returns
ThreadRoll(t) ==
    /\ threads[t].pc = "roll"
    /\ ThreadBecomes(t, rng,
           [threads[t] EXCEPT !.pc = "done",
                              !.result = shifted_rows(ThreadImage, threads[t].shifts,
                                                      threads[t].params.wrap_mode)])

NextThreads ==
    \E t \in Threads :
        \/ ThreadSeedApply(t)
        \/ ThreadSeedRows(t)
        \/ ThreadDraw(t)
        \/ ThreadRoll(t)

SpecThreads == InitThreads /\ [][NextThreads]_vars

---------------------------------------------------------------------------
(* Random presets and randomized params                                    *)

\* the largest num_effects passed, above the size of the catalog
MaxCount == 13

\* num_effects: not given, or a count
CountInputs == {NoInt} \cup {<<n>> : n \in 0..MaxCount}

\* the seed argument of randomize: not given, or a seed
SeedArgInputs == {NoInt, <<5>>, <<12>>}

\* calls made with the random presets
MaxRandomOps == 2

\* the pipeline becomes q and the generators g; last records the call: arg
\* its argument, result what it returned, pre_rng the generators before it,
\* seeds the seeds it drew for the effects and sampled the generators after
\* its random.sample
RandomBecomes(q, g, op, arg, result, seeds, sampled) ==
    /\ effects' = q.effects
    /\ history' = q.history
    /\ history_index' = q.history_index
    /\ rng' = g
    /\ last' = [op |-> op, ok |-> TRUE, prevop |-> last.op, arg |-> arg,
                result |-> result, pre_rng |-> rng, seeds |-> seeds, sampled |-> sampled]
    /\ steps' = steps + 1
    /\ UNCHANGED <<heap, threads>>

\* a freshly constructed pipeline in a process that has drawn nothing
InitRandom ==
    /\ effects = Pipeline.effects
    /\ history = Pipeline.history
    /\ history_index = Pipeline.history_index
    /\ logs = <<>>
    /\ last = [op |-> "init", ok |-> TRUE, prevop |-> "none", arg |-> <<>>,
               result |-> <<>>, pre_rng |-> Generators(0, 0), seeds |-> <<>>,
               sampled |-> Generators(0, 0)]
    /\ steps = 0
    /\ heap = NoHeap
    /\ rng = Generators(0, 0)
    /\ threads = NoThreads

\* effect_class.randomize(default_params(), seed)
CallRandomize ==
    /\ steps < MaxRandomOps
    /\ \E effect_class \in DOMAIN EFFECT_REGISTRY, seed \in SeedArgInputs :
           LET r == randomize(effect_class, default_params(effect_class), seed, rng)
           IN RandomBecomes(Self, r.g, "randomize", <<effect_class, seed>>, r.v, <<>>, rng)
    /\ UNCHANGED logs

\* generate_random_preset(num_effects)
CallGenerateRandomPreset ==
    /\ steps < MaxRandomOps
    /\ \E num_effects \in CountInputs :
           LET r == generate_random_preset(num_effects, rng)
           IN RandomBecomes(Self, r.g, "generate_random_preset", num_effects, r.ret,
                            r.seeds, r.sampled)
    /\ UNCHANGED logs

\* MainWindow.on_random_preset
CallRandomPreset ==
    /\ steps < MaxRandomOps
    /\ LET preset_data == generate_random_preset(NoInt, rng)
           q == from_dict(Self, preset_data.ret, EFFECT_REGISTRY)
       IN /\ RandomBecomes(q.p, preset_data.g, "on_random_preset", NoInt, preset_data.ret,
                           preset_data.seeds, preset_data.sampled)
          /\ logs' = Logger_info(logs, <<"Applied random preset">>)

NextRandom ==
    \/ CallRandomize
    \/ CallGenerateRandomPreset
    \/ CallRandomPreset

SpecRandom == InitRandom /\ [][NextRandom]_vars

---------------------------------------------------------------------------
(* Properties of the undo/redo history                                     *)

MutatingOps ==
    {"add_effect", "remove_effect", "set_effect_enabled",
     "update_effect_params", "move_effect", "clear"}

IndexedOps ==
    {"remove_effect", "set_effect_enabled", "update_effect_params", "move_effect"}

\* C1: undo() called right after an in-range mutation returns True and makes
\* the instance list equal to the list as it was before that mutation.
C1_UndoRestoresPrecedingList ==
    (last.op \in MutatingOps /\ last.ok) =>
        /\ undo(Self).ret = TRUE
        /\ undo(Self).p.effects = last.pre.effects

\* C2: after an undo() that returned True, redo() returns True and restores
\* the instance list, the cursor and the history to what they were before the
\* undo(); after a redo() that returned True, undo() does the same for the
\* state before the redo().
C2_UndoRedoInverse ==
    /\ (last.op = "undo" /\ last.ok) =>
           (redo(Self).ret = TRUE /\ redo(Self).p = last.pre)
    /\ (last.op = "redo" /\ last.ok) =>
           (undo(Self).ret = TRUE /\ undo(Self).p = last.pre)

\* C3: an in-range mutation leaves no snapshot beyond the cursor: the history
\* is the part up to the old cursor plus the new snapshot (less the oldest
\* one on eviction), can_redo() is False and redo() returns False and changes
\* nothing.
C3_MutationDiscardsRedoBranch ==
    (last.op \in MutatingOps /\ last.ok) =>
        LET kept == SubSeq(last.pre.history, 1, last.pre.history_index + 1)
            full == Append(kept, effects)
        IN /\ history = IF Len(full) > max_history THEN Tail(full) ELSE full
           /\ ~can_redo(Self)
           /\ redo(Self).ret = FALSE
           /\ redo(Self).p = Self

\* a mutation made right after a successful undo() dropped a redo branch
C3_Witness ==
    /\ last.op \in MutatingOps /\ last.ok
    /\ last.prevop = "undo" /\ last.prevok
    /\ can_redo(last.pre)
    /\ Len(history) <= Len(last.pre.history)

\* C4: the cursor is -1 exactly when the history is empty, and otherwise
\* 0 <= history_index < len(history).
C4_CursorWithinHistory ==
    /\ (history = <<>>) <=> (history_index = -1)
    /\ history # <<>> => (0 <= history_index /\ history_index < Len(history))

\* undo() has moved the cursor to the first snapshot of a longer history
C4_Witness ==
    /\ last.op = "undo" /\ last.ok
    /\ history_index = 0
    /\ Len(history) > 1

\* C5: the history never holds more than max_history snapshots; a mutation
\* made with max_history snapshots up to the cursor evicts exactly the oldest
\* one, keeps the others in order, and leaves the cursor on the snapshot just
\* appended.
C5_HistoryCapped ==
    /\ Len(history) <= max_history
    /\ (last.op \in MutatingOps /\ last.ok
            /\ last.pre.history_index + 1 = max_history) =>
           /\ history = Append(Tail(last.pre.history), effects)
           /\ history_index = max_history - 1
           /\ history[history_index + 1] = effects

\* a mutation was made on a full history with the cursor at its end
C5_Witness ==
    /\ last.op \in MutatingOps /\ last.ok
    /\ Len(last.pre.history) = max_history
    /\ last.pre.history_index = max_history - 1
    /\ Len(history) = max_history
    /\ history[1] = last.pre.history[2]

\* C6: an indexed call with an out-of-range index raises nothing and leaves
\* the instance list, the history and the cursor as they were.
C6_OutOfRangeIsNoOp ==
    (last.op \in IndexedOps /\ ~last.ok) =>
        (~last.raised /\ Self = last.pre)

\* an out-of-range call was made on a non-empty list with a redo branch
C6_Witness ==
    /\ last.op \in IndexedOps /\ ~last.ok
    /\ Len(effects) > 0
    /\ can_redo(Self)

---------------------------------------------------------------------------
(* Properties of Pipeline.apply                                            *)

\* the enabled instances of a list, in order
EnabledOnly(l) == SelectSeq(l, LAMBDA e : e.enabled)

\* the steps of l composed left to right on image, a step that raises
\* passing its input on
RECURSIVE Compose(_, _)
Compose(l, image) ==
    IF l = <<>> THEN image
    ELSE LET r == Effect_apply(Head(l).effect_class, image, Head(l).params)
         IN Compose(Tail(l), IF r.raised THEN image ELSE r.image)

\* the outputs of the steps of l composed left to right on image
RECURSIVE ComposeOutputs(_, _)
ComposeOutputs(l, image) ==
    IF l = <<>> THEN image
    ELSE ComposeOutputs(Tail(l), Effect_apply(Head(l).effect_class, image, Head(l).params).image)

\* the buffer that enters step k of l when l is applied to image
Entering(l, k, image) == Compose(EnabledOnly(SubSeq(l, 1, k - 1)), image)

\* step k of l is enabled and raises on the buffer that enters it
Fails(l, k, image) ==
    /\ l[k].enabled
    /\ Effect_apply(l[k].effect_class, Entering(l, k, image), l[k].params).raised

\* the elements of l at the positions in S, in order
Restrict(l, S) ==
    [j \in 1..Cardinality(S) |->
        l[CHOOSE k \in S : Cardinality({m \in S : m < k}) = j - 1]]

FailedSteps(l, image) == {k \in 1..Len(l) : Fails(l, k, image)}

PassedSteps(l, image) == {k \in 1..Len(l) : l[k].enabled /\ ~Fails(l, k, image)}

\* C7: apply(image) returns the left-to-right composition of the enabled
\* instances of the live list at the time of the call, whatever the history
\* holds.
C7_ApplyComposesLiveList ==
    last.op = "apply" =>
        last.result = Compose(EnabledOnly(last.pre.effects), last.arg)

\* apply ran right after a successful undo() or redo(), changed the image, and
\* the history holds a snapshot that differs from the live list
C7_Witness ==
    /\ last.op = "apply"
    /\ last.prevop \in {"undo", "redo"} /\ last.prevok
    /\ last.result # last.arg
    /\ \E k \in 1..Len(history) : history[k] # effects

\* C8: for every disabled instance i, apply(image) on the pipeline equals
\* apply(image) on the pipeline with instance i removed.
C8_DisabledStepIsAbsent ==
    \A i \in 1..Len(effects), image \in ImageInputs :
        ~effects[i].enabled =>
            apply(Self, image, logs).result =
                apply([Self EXCEPT !.effects = Pop(effects, i - 1)], image, logs).result

\* apply ran on a list with a disabled instance that would have changed the
\* buffer or raised, and an enabled one that changed it
C8_Witness ==
    /\ last.op = "apply"
    /\ last.result # last.arg
    /\ \E i \in 1..Len(effects) :
           /\ ~effects[i].enabled
           /\ LET buffer == Entering(effects, i, last.arg)
                  r == Effect_apply(effects[i].effect_class, buffer, effects[i].params)
              IN r.raised \/ r.image # buffer

\* C9: apply does not raise when steps raise: the result is the composition
\* of the enabled steps that did not fail, and the logger gains one ERROR
\* entry per failing step, in order.
C9_FailingStepIsIdentity ==
    last.op = "apply" =>
        LET l == last.pre.effects
            failed == Restrict(l, FailedSteps(l, last.arg))
        IN /\ ~last.raised
           /\ last.result = ComposeOutputs(Restrict(l, PassedSteps(l, last.arg)), last.arg)
           /\ Len(logs) = Len(last.prelogs) + Len(failed)
           /\ SubSeq(logs, 1, Len(last.prelogs)) = last.prelogs
           /\ \A j \in 1..Len(failed) :
                  logs[Len(last.prelogs) + j] =
                      [level |-> "ERROR",
                       message |-> <<"Error applying effect", name(failed[j].effect_class)>>]

\* apply ran on a list where a step failed and a later enabled step changed
\* the buffer
C9_Witness ==
    /\ last.op = "apply"
    /\ last.result # last.arg
    /\ \E k \in FailedSteps(effects, last.arg) :
           \E j \in PassedSteps(effects, last.arg) :
               /\ j > k
               /\ Effect_apply(effects[j].effect_class, Entering(effects, j, last.arg),
                               effects[j].params).image # Entering(effects, j, last.arg)

\* C10: apply leaves the instance list, the history, the cursor and the
\* caller's input buffer as they were, whether or not steps fail.
C10_ApplyChangesNothing ==
    last.op = "apply" =>
        (Self = last.pre /\ last.image = last.arg)

\* apply ran with a failing step on a pipeline that has a redo branch
C10_Witness ==
    /\ last.op = "apply"
    /\ logs # last.prelogs
    /\ can_redo(Self)

---------------------------------------------------------------------------
(* Properties of the preset codec                                          *)

\* the (identifier, params, enabled) triples of an instance list, in order
Triples(l) == [k \in 1..Len(l) |-> <<l[k].effect_class, l[k].params, l[k].enabled>>]

\* the classes the registry holds
RegisteredClasses == {EFFECT_REGISTRY[key] : key \in DOMAIN EFFECT_REGISTRY}

\* C12: every registry key equals the __name__ of its class, and
\* from_dict(to_dict(pipeline), EFFECT_REGISTRY) on a pipeline of registered
\* classes does not raise and yields the same ordered (identifier, params,
\* enabled) triples.
C12_PresetRoundTrip ==
    /\ \A key \in DOMAIN EFFECT_REGISTRY : EFFECT_REGISTRY[key] = key
    /\ (/\ last.op = "to_dict_from_dict"
        /\ \A k \in 1..Len(last.pre.effects) :
               last.pre.effects[k].effect_class \in RegisteredClasses) =>
           (~last.raised /\ Triples(effects) = Triples(last.pre.effects))

\* a list of two classes, one instance disabled, with params, went through
\* to_dict and from_dict
C12_Witness ==
    /\ last.op = "to_dict_from_dict"
    /\ Len(effects) = 2
    /\ effects[1].effect_class # effects[2].effect_class
    /\ \E k \in 1..2 : ~effects[k].enabled
    /\ \E k \in 1..2 : effects[k].params # <<>>

\* the last call handed a record to from_dict
HasDecoded ==
    \/ last.op = "from_dict"
    \/ last.op = "load_preset" /\ Truthy(load_preset(last.arg, <<>>).ret)

\* the record the last call handed to from_dict
DecodedData ==
    IF last.op = "from_dict" THEN last.arg ELSE load_preset(last.arg, <<>>).ret.data

DecodedRecords == Get(DecodedData, "effects", <<>>)

\* every record has a "class" field
WellFormed(records) == \A k \in 1..Len(records) : "class" \in DOMAIN records[k]

\* the records whose identifier the registry holds, in order
KnownRecords(records) ==
    SelectSeq(records, LAMBDA r : r["class"] \in DOMAIN EFFECT_REGISTRY)

\* C13: from_dict of well-formed records does not raise and yields one
\* instance per record whose identifier is in the registry, in the records'
\* order, with the record's params and enabled flag; records with an unknown
\* identifier are skipped.
C13_UnknownIdentifierSkipped ==
    (HasDecoded /\ WellFormed(DecodedRecords)) =>
        LET known == KnownRecords(DecodedRecords)
        IN /\ ~last.raised
           /\ effects = [k \in 1..Len(known) |->
                            EffectInstance(EFFECT_REGISTRY[known[k]["class"]],
                                           Get(known[k], "params", <<>>),
                                           Get(known[k], "enabled", TRUE))]

\* a record with an unknown identifier stood between two known ones
C13_Witness ==
    /\ HasDecoded /\ WellFormed(DecodedRecords)
    /\ \E i, j, k \in 1..Len(DecodedRecords) :
           /\ i < j /\ j < k
           /\ DecodedRecords[i]["class"] \in DOMAIN EFFECT_REGISTRY
           /\ DecodedRecords[j]["class"] \notin DOMAIN EFFECT_REGISTRY
           /\ DecodedRecords[k]["class"] \in DOMAIN EFFECT_REGISTRY
    /\ Len(effects) = 2
    /\ effects[1].effect_class # effects[2].effect_class

\* C14: after from_dict has decoded a record, the history is exactly one
\* snapshot equal to the decoded list, the cursor is 0, and undo() and redo()
\* both return False.
C14_DecodeResetsHistory ==
    (HasDecoded /\ ~last.raised) =>
        /\ history = <<effects>>
        /\ history_index = 0
        /\ undo(Self).ret = FALSE
        /\ redo(Self).ret = FALSE

\* C15: a preset decode that fails (missing or corrupt file, malformed
\* record) does not raise and leaves the instance list, the history and the
\* cursor as they were.
C15_DecodeFailureChangesNothing ==
    (last.op \in {"from_dict", "load_preset"} /\ ~last.ok) =>
        (~last.raised /\ Self = last.pre)

---------------------------------------------------------------------------
(* Properties of the snapshots as objects                                  *)

\* the instances and the dicts the snapshots of history hold
SnapshotInstances == UNION {{history[k][j] : j \in 1..Len(history[k])} : k \in 1..Len(history)}

SnapshotDicts == {heap.objects[i].params : i \in SnapshotInstances}

\* the snapshots that were in history before the last call and still are
\* (the history stays below max_history here, so none is evicted)
Surviving ==
    IF last.op \in MutatingOps /\ last.ok
    THEN 1..(Len(history) - 1)
    ELSE 1..Len(history)

\* C11: no snapshot of history shares an instance with the live list, or a
\* params dict with a live instance or with a dict the caller holds (also
\* right after undo() and redo()); and no call, nor an in-place change of a
\* live or caller-held dict, changes what a snapshot already in history
\* denotes.
C11_SnapshotsIsolated ==
    /\ SnapshotInstances \cap {effects[k] : k \in 1..Len(effects)} = {}
    /\ SnapshotDicts \cap (LiveDicts(HeapSelf) \cup heap.held) = {}
    /\ \A k \in Surviving : Content(HeapSelf)[k] = last.pre.content[k]

\* right after an undo(), the dict of a live instance was changed in place,
\* so that the live list differs from the snapshot at the cursor
C11_Witness ==
    /\ last.op = "change_dict" /\ last.ok
    /\ last.prevop = "undo"
    /\ Len(history) > 1
    /\ Deref(heap.objects, effects) # Content(HeapSelf)[history_index + 1]


---------------------------------------------------------------------------
(* Properties of the effects that draw random numbers                      *)

\* the classes that have a seed parameter
SeededClasses == {"BlockShuffle", "ShiftRowsColumns", "Warp"}

\* every state of the generator of random, with two states of the generator
\* of numpy.random
GeneratorStates == {Generators(py, np) : py \in 0..15, np \in {0, 7}}

\* C16: an effect that has a seed parameter, applied again to the same image
\* with the same params, returns the buffer it returned, whatever the state
\* of the process-wide generators before the second call
C16_SeededApplyDeterministic ==
    (last.op = "effect_apply" /\ last.cls \in SeededClasses) =>
        \A g \in GeneratorStates :
            LET again == Effect_apply_drawing(last.cls, last.arg, last.params, g)
            IN [raised |-> again.raised, image |-> again.image] = last.result

\* a seeded effect returned a buffer other than the one passed, from
\* generators another call had moved
C16_Witness ==
    /\ last.op = "effect_apply"
    /\ last.cls \in SeededClasses \ {"Warp"}
    /\ ~last.raised
    /\ last.result.image # last.arg
    /\ last.pre_rng # Generators(0, 0)

\* C17: Pipeline.apply, called again on the same pipeline state with the
\* same image, returns the buffer it returned
C17_PipelineApplyReproducible ==
    last.op = "apply" =>
        apply_drawing(Self, last.arg, logs, rng).result = last.result

\* C18: of two applies running concurrently on different pipelines with
\* different seeds, each returns the buffer it returns when it runs alone
C18_ConcurrentAppliesIndependent ==
    \A t \in Threads :
        threads[t].pc = "done" =>
            threads[t].result
                = ShiftRowsColumns_apply(ThreadImage, threads[t].params, rng).image

---------------------------------------------------------------------------
(* Properties of randomized params and random presets                      *)

\* the seeds generate_random_preset draws for k effects when no randomize
\* call moves the process-wide generators: k successive draws
RECURSIVE IndependentSeeds(_, _, _)
IndependentSeeds(g, k, seeds) ==
    IF Len(seeds) >= k THEN seeds
    ELSE LET seed == randint(g, 0, MaxSeed)
         IN IndependentSeeds(seed.g, k, Append(seeds, seed.v))

\* C19: randomize leaves the process-wide generators as they were before the
\* call, and the seed generate_random_preset draws for an effect does not
\* depend on the randomize calls of the effects before it
C19_RandomizeKeepsGlobalState ==
    /\ last.op = "randomize" => rng = last.pre_rng
    /\ last.op = "generate_random_preset" =>
           last.seeds = IndependentSeeds(last.sampled, Len(last.seeds), <<>>)

\* C20: generate_random_preset(count) returns min(count, size of the
\* catalog) entries, between 1 and 3 when count is not given, with pairwise
\* distinct identifiers that are registry keys, each enabled
C20_RandomPresetDistinctEntries ==
    last.op = "generate_random_preset" =>
        LET entries == last.result.effects IN
        /\ IF last.arg = NoInt THEN Len(entries) \in 1..3
           ELSE Len(entries) = Min(last.arg[1], Cardinality(DOMAIN EFFECT_REGISTRY))
        /\ \A j, k \in 1..Len(entries) : j # k => entries[j].class # entries[k].class
        /\ \A k \in 1..Len(entries) :
               /\ entries[k].class \in DOMAIN EFFECT_REGISTRY
               /\ entries[k].enabled = TRUE

\* a count above the size of the catalog returned the whole catalog, from
\* generators an earlier call had moved
C20_Witness ==
    /\ last.op = "generate_random_preset"
    /\ last.arg = <<MaxCount>>
    /\ Len(last.result.effects) = Cardinality(DOMAIN EFFECT_REGISTRY)
    /\ last.pre_rng # Generators(0, 0)

---------------------------------------------------------------------------
(* The effect classes as functions: apply is called once on a buffer and   *)
(* parameters drawn from the sets below.                                    *)

\* an h x w RGB buffer whose pixels are numbered in raster order
Numbered(h, w) == [y \in 1..h |-> [x \in 1..w |-> <<(y - 1) * w + x, 0, 0>>]]

\* a buffer whose samples are all v
Uniform(h, w, v) == [y \in 1..h |-> [x \in 1..w |-> <<v, v, v>>]]

\* buffers passed to BlockShuffle.apply and ShiftRowsColumns.apply
TileImageInputs == {Numbered(1, 5), Numbered(2, 2), Numbered(3, 3), Numbered(2, 4)}

\* parameters passed to BlockShuffle.apply
BlockShuffleInputs ==
    [block_size : {0, 1, 2, 3},
     shuffle_strength : {Frac(-1, 2), Frac(0, 1), Frac(1, 2), Frac(9, 10), Frac(1, 1),
                         Frac(3, 2)},
     block_transform : {"none", "flip", "rotate", "jitter"},
     seed : {1, 2, 3}]

\* parameters passed to ShiftRowsColumns.apply
ShiftRowsColumnsInputs ==
    [direction : {"rows", "columns", "both"},
     max_shift : {-1, 0, 1, 2, 3},
     smoothness : {Frac(0, 1), Frac(1, 4), Frac(1, 2), Frac(3, 4), Frac(1, 1)},
     seed : {0, 1, 2, 3, 5, 11},
     wrap_mode : {"wrap", "clamp"}]

\* buffers and parameters passed to Posterize.apply
PosterizeImageInputs ==
    {Uniform(1, 2, 128), Uniform(2, 1, 128), Uniform(2, 2, 0), Uniform(1, 1, 255), Uniform(1, 1, 127),
     << << <<10, 128, 200>>, <<0, 255, 64>> >> >>}

PosterizeInputs == [levels : {0, 1, 2, 3, 4, 8, 256, 300}, dither : {FALSE}]

\* parameters passed to Scale.apply
ScaleInputs == [scale_x : {0, 100}, scale_y : {0, 100}]

\* nothing recorded about the inside of a call
NoDetail == <<>>

\* the generators become g; last records the call: cls and params the effect,
\* arg the buffer passed, raised and result what apply did, detail what it
\* computed on the way
EffectsBecomes(cls, params, arg, raised, result, g, detail) ==
    /\ rng' = g
    /\ last' = [op |-> "apply", ok |-> ~raised, prevop |-> last.op, cls |-> cls,
                params |-> params, arg |-> arg, raised |-> raised, result |-> result,
                detail |-> detail]
    /\ UNCHANGED <<effects, history, history_index, logs, steps, heap, threads>>

\* a process that has called nothing
InitEffects ==
    /\ effects = Pipeline.effects
    /\ history = Pipeline.history
    /\ history_index = Pipeline.history_index
    /\ logs = <<>>
    /\ last = [op |-> "init", ok |-> TRUE, prevop |-> "none", cls |-> "none",
               params |-> <<>>, arg |-> <<>>, raised |-> FALSE, result |-> <<>>,
               detail |-> NoDetail]
    /\ steps = 0
    /\ heap = NoHeap
    /\ rng = Generators(0, 0)
    /\ threads = NoThreads

\* BlockShuffle.apply(image, params); detail keeps the number of blocks, the
\* shuffle order and the mapping
EffectsBlockShuffle ==
    /\ last.op = "init"
    /\ \E image \in TileImageInputs, params \in BlockShuffleInputs :
          \E r \in {BlockShuffle_apply(image, params, rng)} :
             IF params.block_size = 0
             THEN EffectsBecomes("BlockShuffle", params, image, r.raised, r.image, r.g,
                                 NoDetail)
             ELSE \E total_blocks \in {num_blocks(Height(image), params.block_size)
                                          * num_blocks(Width(image), params.block_size)} :
                  \E order \in {shuffle_order(total_blocks, params.shuffle_strength,
                                              params.seed, rng)} :
                     EffectsBecomes("BlockShuffle", params, image, r.raised, r.image, r.g,
                                    [total_blocks |-> total_blocks,
                                     raised |-> order.raised,
                                     shuffled_indices |-> order.v,
                                     shuffle_map |-> shuffle_map(total_blocks, order.v)])

\* ShiftRowsColumns.apply(image, params); detail keeps the shifts of the rows
\* when rows are shifted
EffectsShiftRowsColumns ==
    /\ last.op = "init"
    /\ \E image \in TileImageInputs, params \in ShiftRowsColumnsInputs :
          \E r \in {ShiftRowsColumns_apply(image, params, rng)} :
             EffectsBecomes("ShiftRowsColumns", params, image, r.raised, r.image, r.g,
                            IF params.max_shift >= 0 /\ params.direction # "columns"
                            THEN shifts_loop(random_seed(rng, params.seed), 0, Height(image),
                                             params.max_shift, params.smoothness, <<>>).v
                            ELSE NoDetail)

\* Posterize.apply(image, params)
EffectsPosterize ==
    /\ last.op = "init"
    /\ \E image \in PosterizeImageInputs, params \in PosterizeInputs :
          \E r \in {Posterize_apply(image, params)} :
             EffectsBecomes("Posterize", params, image, r.raised, r.image, rng, NoDetail)

\* Scale.apply(image, params)
EffectsScale ==
    /\ last.op = "init"
    /\ \E image \in PosterizeImageInputs, params \in ScaleInputs :
          \E r \in {Scale_apply(image, params)} :
             EffectsBecomes("Scale", params, image, r.raised, r.image, rng, NoDetail)

NextEffects ==
    \/ EffectsBlockShuffle
    \/ EffectsShiftRowsColumns
    \/ EffectsPosterize
    \/ EffectsScale

SpecEffects == InitEffects /\ [][NextEffects]_vars

---------------------------------------------------------------------------
(* Properties of the effect classes                                        *)

\* C21: BlockShuffle.apply with shuffle_strength = 0 returns a buffer equal to
\* the buffer passed, whatever the image size, block_size, seed and
\* block_transform
C21_ZeroStrengthIsIdentity ==
    (/\ last.op = "apply"
     /\ last.cls = "BlockShuffle"
     /\ last.params.block_size >= 1
     /\ last.params.shuffle_strength = Frac(0, 1))
        => (~last.raised /\ last.result = last.arg)

\* the tile contents of a buffer in raster order
Tiles(image, block_size) ==
    blocks_loop(image, block_size, "none", 0, [g |-> Generators(0, 0), v |-> <<>>]).v

\* how many of the tiles have content t
TileCount(tiles, t) == Cardinality({i \in DOMAIN tiles : tiles[i] = t})

\* C22: with block_transform none, BlockShuffle.apply conserves the multiset of
\* tile contents for any shuffle_strength, also when clipped edge tiles are
\* among the selected tiles
C22_TileContentsConserved ==
    (/\ last.op = "apply"
     /\ last.cls = "BlockShuffle"
     /\ last.params.block_size >= 1
     /\ last.params.block_transform = "none"
     /\ ~last.raised)
        => LET before == Tiles(last.arg, last.params.block_size)
               after == Tiles(last.result, last.params.block_size)
           IN /\ Len(after) = Len(before)
              /\ \A i \in DOMAIN before :
                     TileCount(after, before[i]) = TileCount(before, before[i])

\* C23: apply returns a buffer without raising for any typed parameter values:
\* BlockShuffle with block_size <= 0 or shuffle_strength outside [0, 1] or
\* rotate on an image that is not a multiple of block_size, ShiftRowsColumns
\* with max_shift < 0, Scale with scale_x or scale_y = 0
C23_ApplyNeverRaises ==
    last.op = "apply" => ~last.raised

\* every sample of the buffer is v
AllSamples(image, v) ==
    \A y \in DOMAIN image : \A x \in DOMAIN image[y] : \A c \in DOMAIN image[y][x] :
        image[y][x][c] = v

\* Posterize.apply was called with levels = 2 and dither = false on a buffer
\* whose samples are all 128
PosterizeMidGray ==
    /\ last.op = "apply"
    /\ last.cls = "Posterize"
    /\ last.params.levels = 2
    /\ last.params.dither = FALSE
    /\ AllSamples(last.arg, 128)

\* C24 as stated: Posterize with levels = 2 and dither = false on a buffer
\* whose samples are all 128 returns a buffer whose samples are all 0
C24_MidGrayQuantizedToZero ==
    PosterizeMidGray => (~last.raised /\ AllSamples(last.result, 0))

\* C24 amended: Posterize with levels = 2 and dither = false on a buffer whose
\* samples are all 128 returns a buffer of the same size whose samples are
\* all 128, the multiple of step = 256 div 2 = 128 at or below 128
C24_MidGrayQuantizedTo128 ==
    PosterizeMidGray =>
        /\ ~last.raised
        /\ Height(last.result) = Height(last.arg)
        /\ Width(last.result) = Width(last.arg)
        /\ AllSamples(last.result, 128)

\* Posterize.apply has returned for levels = 2 on a buffer of two samples 128
C24_Witness ==
    /\ PosterizeMidGray
    /\ Height(last.arg) * Width(last.arg) = 2
    /\ ~last.raised
    /\ last.result = last.arg

\* Python's round(num / den), den > 0: to the nearest integer, a half to the
\* even neighbour
round(num, den) ==
    LET floor == num \div den
        rest == 2 * (num % den)
    IN IF rest < den THEN floor
       ELSE IF rest > den THEN floor + 1
       ELSE IF floor % 2 = 0 THEN floor ELSE floor + 1

\* ceil(a / b), b > 0
ceil(a, b) == -((-a) \div b)

\* C25: for shuffle_strength in [0, 1] BlockShuffle.apply selects exactly
\* round(total_tiles * shuffle_strength) tile indices, where total_tiles =
\* ceil(h / block_size) * ceil(w / block_size)
C25_SelectsRoundedCount ==
    (/\ last.op = "apply"
     /\ last.cls = "BlockShuffle"
     /\ last.params.block_size >= 1
     /\ last.params.shuffle_strength.num >= 0
     /\ last.params.shuffle_strength.num <= last.params.shuffle_strength.den)
        => LET total_tiles == ceil(Height(last.arg), last.params.block_size)
                                  * ceil(Width(last.arg), last.params.block_size)
           IN /\ last.detail.total_blocks = total_tiles
              /\ ~last.detail.raised
              /\ Len(last.detail.shuffled_indices)
                     = round(total_tiles * last.params.shuffle_strength.num,
                             last.params.shuffle_strength.den)
              /\ Cardinality({last.detail.shuffled_indices[i] :
                                  i \in DOMAIN last.detail.shuffled_indices})
                     = Len(last.detail.shuffled_indices)

\* the tiles reached from tile idx by following the mapping up to n times
RECURSIVE Orbit(_, _, _)
Orbit(mapping, idx, n) ==
    IF n = 0 THEN {idx} ELSE {idx} \cup Orbit(mapping, mapping[idx], n - 1)

\* the mapping is a permutation of the tile indices, one cycle over the
\* selected tiles in shuffle order and the identity on the others
TileMappingIsCycle(mapping, shuffled_indices) ==
    LET selected == {shuffled_indices[i] : i \in DOMAIN shuffled_indices}
        k == Len(shuffled_indices)
    IN /\ {mapping[idx] : idx \in DOMAIN mapping} = DOMAIN mapping
       /\ \A idx \in DOMAIN mapping \ selected : mapping[idx] = idx
       /\ \A idx \in selected : Orbit(mapping, idx, k) = selected
       /\ \A i \in 1..k : mapping[shuffled_indices[i]] = shuffled_indices[(i % k) + 1]

\* BlockShuffle.apply has built its mapping and returned
BlockShuffleReturned ==
    /\ last.op = "apply"
    /\ last.cls = "BlockShuffle"
    /\ last.params.block_size >= 1
    /\ ~last.raised

\* C26: the tile mapping of BlockShuffle.apply is a permutation of the tile
\* indices, a single cycle over exactly the selected tiles and the identity on
\* the others, so that the tiles not selected keep their original content
C26_CycleOverSelectedOnly ==
    BlockShuffleReturned =>
        /\ TileMappingIsCycle(last.detail.shuffle_map, last.detail.shuffled_indices)
        /\ \A idx \in DOMAIN last.detail.shuffle_map :
               (\A i \in DOMAIN last.detail.shuffled_indices :
                    last.detail.shuffled_indices[i] # idx)
                   => Tiles(last.result, last.params.block_size)[idx + 1]
                          = Tiles(last.arg, last.params.block_size)[idx + 1]

\* the shifts drawn from generators g on are rounded blends: shifts[1] the
\* draw, shifts[i + 1] the rounded blend of shifts[i] and the draw
RECURSIVE RoundedBlend(_, _, _, _, _)
RoundedBlend(g, i, shifts, max_shift, smoothness) ==
    IF i >= Len(shifts) THEN TRUE
    ELSE LET new_random == randint(g, -max_shift, max_shift)
         IN /\ shifts[i + 1] =
                   IF i = 0 THEN new_random.v
                   ELSE round(shifts[i] * smoothness.num
                                  + new_random.v * (smoothness.den - smoothness.num),
                              smoothness.den)
            /\ RoundedBlend(new_random.g, i + 1, shifts, max_shift, smoothness)

\* C27: the row shifts of ShiftRowsColumns are shift[0] = a draw from
\* [-max_shift, max_shift] and shift[i] = round(shift[i-1] * smoothness +
\* new_random[i] * (1 - smoothness)); every shift lies in [-max_shift,
\* max_shift] and is the rounded, not the truncated, blend
C27_ShiftsAreRoundedBlend ==
    (/\ last.op = "apply"
     /\ last.cls = "ShiftRowsColumns"
     /\ last.params.max_shift >= 0
     /\ last.params.direction # "columns")
        => /\ Len(last.detail) = Height(last.arg)
           /\ \A i \in DOMAIN last.detail :
                  /\ last.detail[i] >= -last.params.max_shift
                  /\ last.detail[i] <= last.params.max_shift
           /\ RoundedBlend(random_seed(Generators(0, 0), last.params.seed), 0, last.detail,
                           last.params.max_shift, last.params.smoothness)

---------------------------------------------------------------------------
(* Further properties of the pipeline                                      *)

\* C28: after every completed Pipeline operation, no-ops and failed undo/redo
\* included, a non-empty history has the live instance list as its snapshot
\* history[history_index]; every in-range mutation, also one that leaves the
\* list as it was, appends one snapshot and leaves the cursor on the last entry
C28_LiveListIsCursorSnapshot ==
    /\ (~last.raised /\ history # <<>>) =>
           /\ history_index \in 0..(Len(history) - 1)
           /\ effects = history[history_index + 1]
    /\ (last.op \in MutatingOps /\ last.ok) =>
           /\ history_index = Len(history) - 1
           /\ history[Len(history)] = effects
           /\ Len(history) = Min(last.pre.history_index + 2, max_history)

---------------------------------------------------------------------------
(* Reordering the stack: move_effect called directly and from the drag and *)
(* drop of the effect stack widget, on pipelines of up to four instances   *)

\* the instances added to the pipeline before the moves
StackInputs ==
    << EffectInstance("ChannelShuffle", [mode |-> "gbr"], TRUE),
       EffectInstance("Scale", [scale_x |-> 0], TRUE),
       EffectInstance("Posterize", [levels |-> 2], FALSE),
       EffectInstance("ChannelShuffle", [mode |-> "rbg"], TRUE) >>

\* moves made from the initial state
MaxMoves == 2

\* EffectStackWidget.on_rows_moved: the indices it emits with effect_moved
on_rows_moved(start, end, row) ==
    [from_index |-> start,
     to_index |-> IF row <= start THEN row ELSE row - (end - start + 1)]

\* the pipeline becomes q; last records the call and its indices
MoveBecomes(q, op, from_index, to_index) ==
    /\ effects' = q.effects
    /\ history' = q.history
    /\ history_index' = q.history_index
    /\ last' = [op |-> op, ok |-> InRange(Self, from_index) /\ InRange(Self, to_index),
                pre |-> Self, prevop |-> last.op, from_index |-> from_index,
                to_index |-> to_index]
    /\ steps' = steps + 1
    /\ UNCHANGED <<logs, heap, rng, threads>>

\* a pipeline after add_effect of the first n instances, n = 0..4
InitMove ==
    /\ \E n \in 0..Len(StackInputs) :
          /\ effects = SubSeq(StackInputs, 1, n)
          /\ history = [k \in 1..n |-> SubSeq(StackInputs, 1, k)]
          /\ history_index = n - 1
          /\ last = [op |-> "init", ok |-> TRUE, pre |-> Pipeline, prevop |-> "none",
                     from_index |-> 0, to_index |-> 0]
    /\ logs = <<>>
    /\ steps = 0
    /\ heap = NoHeap
    /\ rng = Generators(0, 0)
    /\ threads = NoThreads

\* pipeline.move_effect(from_index, to_index)
MoveEffect ==
    /\ steps < MaxMoves
    /\ \E from_index \in IndexInputs, to_index \in IndexInputs :
           MoveBecomes(move_effect(Self, from_index, to_index), "move_effect",
                       from_index, to_index)

\* a row of the stack is dragged from start to before row: on_rows_moved emits
\* effect_moved and MainWindow.on_effect_moved calls pipeline.move_effect
RowsMoved ==
    /\ steps < MaxMoves
    /\ \E start \in 0..(Len(effects) - 1), row \in 0..Len(effects) :
          /\ row \notin {start, start + 1}
          /\ LET moved == on_rows_moved(start, start, row)
             IN MoveBecomes(move_effect(Self, moved.from_index, moved.to_index),
                            "on_rows_moved", moved.from_index, moved.to_index)

NextMove ==
    \/ MoveEffect
    \/ RowsMoved

SpecMove == InitMove /\ [][NextMove]_vars

\* C29: move_effect(from, to) with both indices in range permutes the instance
\* list without adding, dropping or changing an instance: the moved instance
\* is at index to, the others keep their relative order, and move_effect(i, i)
\* leaves the order unchanged
C29_MoveIsPermutation ==
    (last.op \in {"move_effect", "on_rows_moved"} /\ last.ok) =>
        /\ Len(effects) = Len(last.pre.effects)
        /\ effects[last.to_index + 1] = last.pre.effects[last.from_index + 1]
        /\ Pop(effects, last.to_index) = Pop(last.pre.effects, last.from_index)
        /\ last.from_index = last.to_index => effects = last.pre.effects

\* an instance of a list of four has been moved over two others
C29_Witness ==
    /\ last.op = "move_effect" /\ last.ok
    /\ Len(effects) = 4
    /\ last.from_index = 3 /\ last.to_index = 1
    /\ effects # last.pre.effects
    /\ effects[2] = last.pre.effects[4]

---------------------------------------------------------------------------
(* The main window: its handlers run on the UI thread, one at a time; a    *)
(* CalibrationThread or ProcessingThread runs Pipeline.apply on the        *)
(* window's pipeline, one instance of the list per step.  threads holds    *)
(* the window's fields is_processing, is_calibrating, calibration_thread,  *)
(* processing_thread, whether the loading overlay covers the central       *)
(* widget (overlay) and the buffer the preview viewer shows.  A thread     *)
(* is [state, i, result, live, effects]: i instances passed, result the    *)
(* buffer so far, live whether the list it iterates is still the           *)
(* pipeline's list, effects that list once undo/redo has rebound           *)
(* pipeline.effects.                                                       *)

\* image_model.get_preview() of the loaded image
PreviewImage == << << <<10, 128, 200>> >> >>

\* effects applied from the effects panel
PanelInputs == { <<"ChannelShuffle", [mode |-> "gbr"]>>, <<"Posterize", [levels |-> 2]>> }

\* handlers run from the initial state
MaxUiEvents == 4

\* self.calibration_thread = None, self.processing_thread = None
NoThread == [state |-> "none", i |-> 0, result |-> NoBuffer, live |-> TRUE, effects |-> <<>>]

\* a thread constructed on the window's pipeline and started
StartedThread(image) ==
    [state |-> "running", i |-> 0, result |-> image, live |-> TRUE, effects |-> <<>>]

\* a thread is inside Pipeline.apply
ApplyRunning(ui) ==
    ui.calibration_thread.state = "running" \/ ui.processing_thread.state = "running"

\* MainWindow.update_preview followed by _estimate_processing_time_async, on
\* a window that has an image loaded; p is the pipeline
update_preview(ui, p) ==
    IF ui.is_processing \/ ui.is_calibrating THEN ui
    ELSE IF \A k \in DOMAIN p.effects : ~p.effects[k].enabled
         THEN [ui EXCEPT !.overlay = TRUE,                         \* callback(0.01)
                         !.is_processing = TRUE,
                         !.processing_thread = StartedThread(PreviewImage)]
         ELSE [ui EXCEPT !.overlay = TRUE,
                         !.is_calibrating = TRUE,
                         !.calibration_thread = StartedThread(PreviewImage)]

\* pipeline.effects is bound to a new list: a running thread goes on
\* iterating the list it started with
Rebound(ui, p) ==
    LET kept(t) == IF t.state = "running" /\ t.live
                   THEN [t EXCEPT !.live = FALSE, !.effects = p.effects]
                   ELSE t
    IN [ui EXCEPT !.calibration_thread = kept(@), !.processing_thread = kept(@)]

\* a handler has changed the pipeline to q and the window's fields to ui;
\* last records the handler, whether its pipeline method took effect (ok) and
\* whether it did so while a thread was inside apply (overlapped)
UiBecomes(q, ui, op, ok) ==
    /\ effects' = q.effects
    /\ history' = q.history
    /\ history_index' = q.history_index
    /\ threads' = ui
    /\ last' = [op |-> op, ok |-> ok, prevop |-> last.op,
                overlapped |-> ok /\ ApplyRunning(threads)]
    /\ steps' = steps + 1
    /\ UNCHANGED <<logs, heap, rng>>

\* a window with an image loaded and an empty pipeline, after its first preview
InitUi ==
    /\ effects = Pipeline.effects
    /\ history = Pipeline.history
    /\ history_index = Pipeline.history_index
    /\ logs = <<>>
    /\ last = [op |-> "init", ok |-> TRUE, prevop |-> "none", overlapped |-> FALSE]
    /\ steps = 0
    /\ heap = NoHeap
    /\ rng = Generators(0, 0)
    /\ threads = [is_processing |-> FALSE, is_calibrating |-> FALSE,
                  calibration_thread |-> NoThread, processing_thread |-> NoThread,
                  overlay |-> FALSE, preview |-> PreviewImage]

\* MainWindow.on_apply_effect, from the effect panel in the central widget
OnApplyEffect ==
    /\ steps < MaxUiEvents
    /\ ~threads.overlay
    /\ Len(effects) < MaxEffects
    /\ \E a \in PanelInputs :
          \E q \in {add_effect(Self, a[1], a[2])} :
             UiBecomes(q, update_preview(threads, q), "on_apply_effect", TRUE)

\* MainWindow.on_effect_toggled, from the effect stack in the central widget
OnEffectToggled ==
    /\ steps < MaxUiEvents
    /\ ~threads.overlay
    /\ \E index \in 0..(Len(effects) - 1), enabled \in BOOLEAN :
          \E q \in {set_effect_enabled(Self, index, enabled)} :
             UiBecomes(q, update_preview(threads, q), "on_effect_toggled", TRUE)

\* MainWindow.on_effect_removed, from the effect stack in the central widget
OnEffectRemoved ==
    /\ steps < MaxUiEvents
    /\ ~threads.overlay
    /\ \E index \in 0..(Len(effects) - 1) :
          \E q \in {remove_effect(Self, index)} :
             UiBecomes(q, update_preview(threads, q), "on_effect_removed", TRUE)

\* MainWindow.on_undo, from the Edit menu or Ctrl+Z
OnUndo ==
    /\ steps < MaxUiEvents
    /\ \E r \in {undo(Self)} :
          IF r.ret
          THEN UiBecomes(r.p, update_preview(Rebound(threads, Self), r.p), "on_undo", TRUE)
          ELSE UiBecomes(r.p, threads, "on_undo", FALSE)

\* MainWindow.on_redo, from the Edit menu or Ctrl+Y
OnRedo ==
    /\ steps < MaxUiEvents
    /\ \E r \in {redo(Self)} :
          IF r.ret
          THEN UiBecomes(r.p, update_preview(Rebound(threads, Self), r.p), "on_redo", TRUE)
          ELSE UiBecomes(r.p, threads, "on_redo", FALSE)

\* MainWindow.on_reset, from the Edit menu or the toolbar
OnReset ==
    /\ steps < MaxUiEvents
    /\ \E q \in {clear(Self)} : UiBecomes(q, update_preview(threads, q), "on_reset", TRUE)

\* the step a running thread takes in the loop of Pipeline.apply: the next
\* instance of its list, or the end of the loop and the finished signal
ThreadStep(t) ==
    LET list == IF t.live THEN effects ELSE t.effects
    IN IF t.i >= Len(list) THEN [t EXCEPT !.state = "finished"]
       ELSE LET r == EffectInstance_apply(list[t.i + 1], t.result)
            IN [t EXCEPT !.i = @ + 1, !.result = IF r.raised THEN @ ELSE r.image]

\* CalibrationThread.run
CalibrationRun ==
    /\ threads.calibration_thread.state = "running"
    /\ threads' = [threads EXCEPT !.calibration_thread = ThreadStep(@)]
    /\ UNCHANGED <<effects, history, history_index, logs, last, steps, heap, rng>>

\* ProcessingThread.run
ProcessingRun ==
    /\ threads.processing_thread.state = "running"
    /\ threads' = [threads EXCEPT !.processing_thread = ThreadStep(@)]
    /\ UNCHANGED <<effects, history, history_index, logs, last, steps, heap, rng>>

\* on_calibration_finished and the on_estimation_done it calls
OnCalibrationFinished ==
    /\ threads.calibration_thread.state = "finished"
    /\ threads' =
           IF ~threads.is_processing
           THEN [threads EXCEPT !.calibration_thread = NoThread,
                                !.is_calibrating = FALSE,
                                !.is_processing = TRUE,
                                !.processing_thread = StartedThread(PreviewImage)]
           ELSE [threads EXCEPT !.calibration_thread = NoThread,
                                !.is_calibrating = FALSE]
    /\ UNCHANGED <<effects, history, history_index, logs, last, steps, heap, rng>>

\* MainWindow.on_processing_finished
OnProcessingFinished ==
    /\ threads.processing_thread.state = "finished"
    /\ threads' = [threads EXCEPT !.preview = threads.processing_thread.result,
                                  !.overlay = FALSE,
                                  !.is_processing = FALSE,
                                  !.processing_thread = NoThread]
    /\ UNCHANGED <<effects, history, history_index, logs, last, steps, heap, rng>>

NextUi ==
    \/ OnApplyEffect
    \/ OnEffectToggled
    \/ OnEffectRemoved
    \/ OnUndo
    \/ OnRedo
    \/ OnReset
    \/ CalibrationRun
    \/ ProcessingRun
    \/ OnCalibrationFinished
    \/ OnProcessingFinished

SpecUi == InitUi /\ [][NextUi]_vars

\* no thread is running or has a signal pending, and the flags are down
UiIdle ==
    /\ ~threads.overlay
    /\ ~threads.is_processing
    /\ ~threads.is_calibrating
    /\ threads.calibration_thread.state = "none"
    /\ threads.processing_thread.state = "none"

\* C30: the window serializes mutation and apply on its pipeline: no handler
\* changes the pipeline while a CalibrationThread or ProcessingThread is
\* inside Pipeline.apply on it, and once the threads a mutation started have
\* finished, the preview shown is the result of applying the current pipeline
C30_UiSerializesMutationAndApply ==
    /\ last.op # "init" => ~last.overlapped
    /\ (last.op # "init" /\ UiIdle) =>
           threads.preview = apply(Self, PreviewImage, logs).result

====
